---- MODULE Spec2Model ----
(***************************************************************************)
(* Durable orchestration core of the agent service: the two Service Bus    *)
(* queue consumers that start main_orchestrator under a derived instance   *)
(* id, the orchestrator generator function replayed from its task history, *)
(* the run_agent_workflow and queue_message activities, and the status     *)
(* endpoint.  The Durable Functions task hub appears as the instance       *)
(* records (runtime status, input, output, task history) that get_status   *)
(* reads and start_new replaces.                                           *)
(***************************************************************************)
EXTENDS Integers, Sequences, FiniteSets, TLC

(***************************************************************************)
(* Bounds of the model.                                                    *)
(***************************************************************************)
NumWorkers == 2
MaxDeliveries == 2

Workers == 1..NumWorkers

(***************************************************************************)
(* Python / JSON values.  Every value carries its type tag so that values  *)
(* of different types can sit in one mapping.                              *)
(***************************************************************************)
PyNone == [t |-> "none"]
Str(s) == [t |-> "str", s |-> s]
Num(n) == [t |-> "num", n |-> n]
Dict(d) == [t |-> "dict", d |-> d]
List(l) == [t |-> "list", l |-> l]
Bool(b) == [t |-> "bool", b |-> b]
EmptyDict == Dict(<<>>)

\* an exception raised in place of a value, with str(e)
PyExc(reason) == [t |-> "exc", reason |-> reason]

IsDict(v) == v.t = "dict"
IsStr(v) == v.t = "str"

\* dict.get(key, default) on a value already known to be a dict
Get(v, key, default) == IF key \in DOMAIN v.d THEN v.d[key] ELSE default

\* Python truthiness: None, "", 0, {} and [] are false
Truthy(v) ==
    CASE v.t = "none" -> FALSE
      [] v.t = "str" -> v.s # ""
      [] v.t = "num" -> v.n # 0
      [] v.t = "dict" -> DOMAIN v.d # {}
      [] v.t = "list" -> Len(v.l) > 0
      [] v.t = "bool" -> v.b
      [] OTHER -> TRUE

\* str(v) as an f-string renders it (only the shapes that reach a key)
PyFormat(v) ==
    CASE v.t = "str" -> v.s
      [] v.t = "none" -> "None"
      [] v.t = "num" -> ToString(v.n)
      [] OTHER -> "<obj>"

(***************************************************************************)
(* JSON texts that travel through the queues and come back from the        *)
(* gateway, with the value json.loads gives for each.  A text outside the  *)
(* table is not valid JSON.                                                *)
(***************************************************************************)
TxtOrder42 == "{\"event_type\": \"order\", \"event_id\": \"42\"}"
TxtTask7 == "{\"agent_type\": \"billing\", \"task_id\": \"7\"}"
TxtPayloadX == "{\"x\": 1}"
TxtPayloadSummary == "{\"summary\": \"ok\"}"
TxtEmptyDict == "{}"
TxtRouteTasks ==
    "{\"next_action\": {\"target_queue\": \"agent-tasks\", \"payload\": {\"x\": 1}}}"
TxtRouteResults ==
    "{\"next_action\": {\"target_queue\": \"agent-results\", \"payload\": {\"summary\": \"ok\"}}}"
TxtRouteSelf ==
    "{\"next_action\": {\"target_queue\": \"agent-orchestrator\", \"payload\": {\"event_type\": \"order\", \"event_id\": \"42\"}}}"
TxtRouteNone == "{\"next_action\": {\"target_queue\": \"none\"}}"
TxtRouteEmpty == "{\"next_action\": {\"target_queue\": \"\", \"payload\": {\"x\": 1}}}"
TxtNoPayload == "{\"next_action\": {\"target_queue\": \"agent-results\"}}"
TxtNoRoute == "{\"category\": \"spam\"}"
TxtMalformed == "{next_action: agent-tasks"
TxtList == "[1]"
TxtNumber == "42"
TxtNull == "null"
TxtString == "\"agent-tasks\""
TxtActionString == "{\"next_action\": \"agent-tasks\"}"
TxtActionList == "{\"next_action\": [1]}"
TxtActionNull == "{\"next_action\": null}"
TxtActionEmpty == "{\"next_action\": {}}"
TxtNoTarget == "{\"next_action\": {\"payload\": {\"x\": 1}}}"
TxtNullTarget == "{\"next_action\": {\"target_queue\": null, \"payload\": {\"x\": 1}}}"

ValOrder42 == Dict([event_type |-> Str("order"), event_id |-> Str("42")])
ValTask7 == Dict([agent_type |-> Str("billing"), task_id |-> Str("7")])
ValPayloadX == Dict([x |-> Num(1)])
ValPayloadSummary == Dict([summary |-> Str("ok")])

Route(q, p) == Dict([next_action |-> Dict([target_queue |-> Str(q), payload |-> p])])

JsonDocs ==
    { <<TxtOrder42, ValOrder42>>,
      <<TxtTask7, ValTask7>>,
      <<TxtPayloadX, ValPayloadX>>,
      <<TxtPayloadSummary, ValPayloadSummary>>,
      <<TxtEmptyDict, EmptyDict>>,
      <<TxtRouteTasks, Route("agent-tasks", ValPayloadX)>>,
      <<TxtRouteResults, Route("agent-results", ValPayloadSummary)>>,
      <<TxtRouteSelf, Route("agent-orchestrator", ValOrder42)>>,
      <<TxtRouteNone, Dict([next_action |-> Dict([target_queue |-> Str("none")])])>>,
      <<TxtRouteEmpty, Route("", ValPayloadX)>>,
      <<TxtNoPayload, Dict([next_action |-> Dict([target_queue |-> Str("agent-results")])])>>,
      <<TxtNoRoute, Dict([category |-> Str("spam")])>>,
      <<TxtList, List(<<Num(1)>>)>>,
      <<TxtNumber, Num(42)>>,
      <<TxtNull, PyNone>>,
      <<TxtString, Str("agent-tasks")>>,
      <<TxtActionString, Dict([next_action |-> Str("agent-tasks")])>>,
      <<TxtActionList, Dict([next_action |-> List(<<Num(1)>>)])>>,
      <<TxtActionNull, Dict([next_action |-> PyNone])>>,
      <<TxtActionEmpty, Dict([next_action |-> EmptyDict])>>,
      <<TxtNoTarget, Dict([next_action |-> Dict([payload |-> ValPayloadX])])>>,
      <<TxtNullTarget,
        Dict([next_action |-> Dict([target_queue |-> PyNone, payload |-> ValPayloadX])])>> }

\* json.loads: [ok, v]; ok = FALSE stands for json.JSONDecodeError
json_loads(text) ==
    IF \E doc \in JsonDocs : doc[1] = text
    THEN [ok |-> TRUE, v |-> (CHOOSE doc \in JsonDocs : doc[1] = text)[2]]
    ELSE [ok |-> FALSE, v |-> PyNone]

\* json.dumps: [ok, s]; ok = FALSE stands for a value that has no JSON text
json_dumps(v) ==
    IF \E doc \in JsonDocs : doc[2] = v
    THEN [ok |-> TRUE, s |-> (CHOOSE doc \in JsonDocs : doc[2] = v)[1]]
    ELSE [ok |-> FALSE, s |-> ""]

(***************************************************************************)
(* Instance ids (agents.py:63 and agents.py:105).                          *)
(***************************************************************************)
\* Faulty variant of orchestrator_instance_id: the delivery's source field
\* goes into the id.
orchestrator_instance_id_withSource(body) ==
    "orchestrate-" \o PyFormat(Get(body, "event_type", Str("unknown")))
        \o "-" \o PyFormat(Get(body, "event_id", Str("unknown")))
        \o PyFormat(Get(body, "source", Str("")))

orchestrator_instance_id(body) ==
    "orchestrate-" \o PyFormat(Get(body, "event_type", Str("unknown")))
        \o "-" \o PyFormat(Get(body, "event_id", Str("unknown")))

\* Faulty variant of task_instance_id: a missing task_id has no default.
task_instance_id_noDefault(body) ==
    "task-" \o PyFormat(Get(body, "agent_type", PyNone))
        \o "-" \o PyFormat(Get(body, "task_id", PyNone))

task_instance_id(body) ==
    "task-" \o PyFormat(Get(body, "agent_type", PyNone))
        \o "-" \o PyFormat(Get(body, "task_id", Str("unknown")))

(***************************************************************************)
(* run_agent_workflow activity (app/activity_workflow.py).                 *)
(***************************************************************************)
\* dataclass AgentResponse with its defaults (utility/util_classes.py:30-43)
AgentResponse(status, responses, reason, agent_type) ==
    [status |-> status, responses |-> responses, reason |-> reason,
     usage |-> PyNone, inference_rounds |-> 0, agent_type |-> agent_type,
     model_name |-> PyNone, next_action |-> PyNone]

\* dataclass NextAction
NextAction(target_queue, payload) ==
    Dict([target_queue |-> target_queue, payload |-> payload])

\* dataclasses.asdict: the response as the mapping the orchestrator receives
asdict(r) ==
    Dict([status |-> Str(r.status), responses |-> List(r.responses),
          reason |-> r.reason, usage |-> r.usage,
          inference_rounds |-> Num(r.inference_rounds),
          agent_type |-> r.agent_type, model_name |-> r.model_name,
          next_action |-> r.next_action])

\* Faulty variant of unwrap_raw: the raw wrapper is not looked into.
unwrap_raw_never(first_response) == first_response

\* if isinstance(first_response, dict) and 'raw' in first_response (108-109)
unwrap_raw(first_response) ==
    IF IsDict(first_response) /\ "raw" \in DOMAIN first_response.d
    THEN first_response.d["raw"] ELSE first_response

\* Faulty variant of on_decode_error: json.JSONDecodeError is not caught.
on_decode_error_propagates == PyExc("Expecting property name enclosed in double quotes")

\* except json.JSONDecodeError: return None (114-116)
on_decode_error == PyNone

\* Faulty variant of is_routing_mapping: the isinstance test is missing.
is_routing_mapping_truthy(agent_next_action) == Truthy(agent_next_action)

\* the negation of the test of lines 120-121
is_routing_mapping(agent_next_action) ==
    Truthy(agent_next_action) /\ IsDict(agent_next_action)

\* Faulty variant of no_target: "none" is taken for a queue name.
no_target_emptyOnly(target_queue) == ~Truthy(target_queue)

\* if not target_queue or target_queue == "none" (line 124)
no_target(target_queue) == ~Truthy(target_queue) \/ target_queue = Str("none")

\* The result is None, a NextAction, or the exception Python raises (.get
\* on a value that is not a dict is an AttributeError).
_determine_next_action(agent_type, response) ==
    LET first == IF Len(response.responses) > 0 THEN response.responses[1]
                 ELSE EmptyDict
        unwrapped == unwrap_raw(first)
        parsed == IF IsStr(unwrapped) THEN json_loads(unwrapped.s)
                  ELSE [ok |-> TRUE, v |-> unwrapped]
    IN  IF ~parsed.ok THEN on_decode_error
        ELSE LET agent_next_action ==
                     IF IsDict(parsed.v) THEN Get(parsed.v, "next_action", PyNone)
                     ELSE PyNone
             IN  IF ~is_routing_mapping(agent_next_action)
                 THEN PyNone
                 ELSE IF ~IsDict(agent_next_action)
                 THEN PyExc("object has no attribute 'get'")
                 ELSE LET target_queue == Get(agent_next_action, "target_queue", PyNone)
                      IN  IF no_target(target_queue)
                          THEN PyNone
                          ELSE NextAction(target_queue,
                                          Get(agent_next_action, "payload", EmptyDict))

\* _track_usage: one recording attempt when the response carries usage;
\* whatever track_token_usage does (tel) is swallowed
_track_usage(response, tel) == IF Truthy(response.usage) THEN 1 ELSE 0

\* Faulty variant of telemetry_exception: an exception of the recording
\* leaves _track_usage.
telemetry_exception_propagates(response, tel) ==
    IF Truthy(response.usage) /\ tel = "raise"
    THEN PyExc("Failed to track token usage") ELSE PyNone

\* what leaves _track_usage when the recording goes as tel says: nothing,
\* the except branch only logs (lines 145-146)
telemetry_exception(response, tel) == PyNone

\* Faulty variant of exception_response: the agent type is left out.
exception_response_untyped(reason, agent_type) ==
    asdict(AgentResponse("error", <<>>, Str(reason), PyNone))

\* the except branch (lines 80-87)
exception_response(reason, agent_type) ==
    asdict(AgentResponse("error", <<>>, Str(reason), agent_type))

\* Faulty variant of no_response_reason: the agent type is not named.
no_response_reason_anonymous(agent_type) == "No response from agent"

\* f"No response from agent: {agent_type}" (line 61)
no_response_reason(agent_type) == "No response from agent: " \o PyFormat(agent_type)

\* Faulty variant of enriched_next_action: a next_action the backend put in
\* its response is kept.
enriched_next_action_kept(backend_next_action, determined) ==
    IF backend_next_action # PyNone THEN backend_next_action ELSE determined

\* agent_response.next_action = _determine_next_action(...) (line 67)
enriched_next_action(backend_next_action, determined) == determined

\* gw is what the body of the try gets from outside: [kind |-> "raise",
\* stage, reason] for an exception at one of its stages (loading the prompt,
\* get_backend, backend.execute, asdict), [kind |-> "none"] for a backend
\* that returns nothing, [kind |-> "resp", r] for a response
run_agent_workflow(workflowInput, gw, tel) ==
    LET agent_type == Get(workflowInput, "agent_type", PyNone)
    IN  CASE gw.kind = "raise" ->
               [result |-> exception_response(gw.reason, agent_type), tracked |-> 0]
          [] gw.kind = "none" ->
               [result |-> asdict(AgentResponse("error", <<>>,
                              Str(no_response_reason(agent_type)), agent_type)),
                tracked |-> 0]
          [] OTHER ->
               LET determined == _determine_next_action(agent_type, gw.r)
                   enriched == [gw.r EXCEPT !.agent_type = agent_type,
                                   !.next_action =
                                       enriched_next_action(gw.r.next_action, determined)]
                   raised == telemetry_exception(enriched, tel)
               IN  IF determined.t = "exc"
                   THEN [result |-> exception_response(determined.reason, agent_type),
                         tracked |-> 0]
                   ELSE IF raised.t = "exc"
                   THEN [result |-> exception_response(raised.reason, agent_type),
                         tracked |-> _track_usage(enriched, tel)]
                   ELSE [result |-> asdict(enriched),
                         tracked |-> _track_usage(enriched, tel)]

(***************************************************************************)
(* track_token_usage (shared/util_token_tracking.py) with log_event        *)
(* (shared/util_cosmos.py).  sql says how the primary store behaves:       *)
(* "import_raises", "unconfigured" (SessionLocal is None),                 *)
(* "session_raises" (SessionLocal() raises), "ok", "commit_raises",        *)
(* "rollback_raises" (commit and then rollback raise), "close_raises"      *)
(* (commit goes through, session.close raises).  cosmos says how the       *)
(* secondary store behaves: "import_raises", "unconfigured" (no database), *)
(* "ok", "upsert_raises".  Writes are counted as attempts.                 *)
(***************************************************************************)
\* log_event: [result, writes]
log_event(cosmos) ==
    CASE cosmos = "unconfigured" ->
           [result |-> Dict([success |-> Bool(FALSE),
                             error |-> Str("Cosmos DB not configured")]),
            writes |-> 0]
      [] cosmos = "ok" ->
           [result |-> Dict([success |-> Bool(TRUE), id |-> Str("e1")]), writes |-> 1]
      [] OTHER ->
           [result |-> Dict([success |-> Bool(FALSE), error |-> Str("upsert failed")]),
            writes |-> 1]

\* Faulty variant of _fallback_to_cosmos: a failed write is tried again.
_fallback_to_cosmos_retrying(cosmos) ==
    IF cosmos = "import_raises"
    THEN [result |-> Dict([success |-> Bool(FALSE),
                           error |-> Str("Cosmos fallback failed: import")]),
          writes |-> 0]
    ELSE LET logged == log_event(cosmos)
         IN  IF Truthy(Get(logged.result, "success", PyNone))
             THEN [result |-> Dict([success |-> Bool(TRUE),
                                    id |-> Get(logged.result, "id", PyNone),
                                    store |-> Str("cosmos")]),
                   writes |-> logged.writes]
             ELSE [result |-> Dict([success |-> Bool(FALSE),
                                    error |-> Str("Cosmos fallback failed")]),
                   writes |-> logged.writes + log_event(cosmos).writes]

\* _fallback_to_cosmos (lines 113-139): [result, writes]; everything is
\* inside its try
_fallback_to_cosmos(cosmos) ==
    IF cosmos = "import_raises"
    THEN [result |-> Dict([success |-> Bool(FALSE),
                           error |-> Str("Cosmos fallback failed: import")]),
          writes |-> 0]
    ELSE LET logged == log_event(cosmos)
         IN  IF Truthy(Get(logged.result, "success", PyNone))
             THEN [result |-> Dict([success |-> Bool(TRUE),
                                    id |-> Get(logged.result, "id", PyNone),
                                    store |-> Str("cosmos")]),
                   writes |-> logged.writes]
             ELSE [result |-> Dict([success |-> Bool(FALSE),
                                    error |-> Str("Cosmos fallback failed")]),
                   writes |-> logged.writes]

\* the body of the outer try up to the write (lines 46-94): what it returns
\* or raises, and the writes to the primary store it attempted.
\* kind "return" carries the mapping returned, "fallback" is the direct
\* call of line 62, "raise" goes to the except branch of line 96.
primary_store(usageArgs, sql) ==
    LET validTokens == usageArgs.input_tokens.t = "num" /\ usageArgs.output_tokens.t = "num"
    IN  IF ~Truthy(usageArgs.model_name) \/ ~Truthy(usageArgs.agent_type)
        THEN [kind |-> "return", writes |-> 0,
              result |-> Dict([success |-> Bool(FALSE),
                               error |-> Str("model_name and agent_type are required")])]
        ELSE IF ~validTokens
        THEN [kind |-> "raise", writes |-> 0, result |-> PyNone]
        ELSE IF usageArgs.input_tokens.n < 0 \/ usageArgs.output_tokens.n < 0
        THEN [kind |-> "return", writes |-> 0,
              result |-> Dict([success |-> Bool(FALSE),
                               error |-> Str("Token counts cannot be negative")])]
        ELSE CASE sql = "import_raises" -> [kind |-> "raise", writes |-> 0, result |-> PyNone]
               [] sql = "unconfigured" -> [kind |-> "fallback", writes |-> 0, result |-> PyNone]
               [] sql = "session_raises" -> [kind |-> "raise", writes |-> 0, result |-> PyNone]
               [] sql = "ok" ->
                    [kind |-> "return", writes |-> 1,
                     result |-> Dict([success |-> Bool(TRUE), id |-> Num(1)])]
               [] OTHER -> [kind |-> "raise", writes |-> 1, result |-> PyNone]

\* track_token_usage (lines 28-110): [result, sql_writes, cosmos_writes]
track_token_usage(usageArgs, sql, cosmos) ==
    LET primary == primary_store(usageArgs, sql)
    IN  IF primary.kind = "return"
        THEN [result |-> primary.result, sql_writes |-> primary.writes,
              cosmos_writes |-> 0]
        ELSE LET fallback == _fallback_to_cosmos(cosmos)
             IN  [result |-> fallback.result, sql_writes |-> primary.writes,
                  cosmos_writes |-> fallback.writes]

(***************************************************************************)
(* queue_message activity (app/activity_queue.py).                         *)
(***************************************************************************)
max_retries == 3
retry_delays == <<2, 5, 10>>

\* Faulty variant of is_last_attempt: the last attempt is not recognised, so
\* the loop waits once more and the function falls off its end.
is_last_attempt_never(attempt) == FALSE

\* Faulty variant of is_last_attempt: the loop gives up one attempt early.
is_last_attempt_early(attempt) == attempt >= max_retries - 2

\* if attempt == max_retries - 1 (line 51)
is_last_attempt(attempt) == attempt = max_retries - 1

\* Faulty variant of delay: the schedule is read one place too far.
delay_shifted(attempt) == retry_delays[attempt + 2]

\* delay = retry_delays[attempt] (line 56; sequences are 1-based here)
delay(attempt) == retry_delays[attempt + 1]

\* The for loop of queue_message from the given attempt (0-based) on.
\* outcomes[i] is TRUE when the i-th send goes through; waits collects the
\* time.sleep delays.  Falling out of the loop returns None.
RECURSIVE SendLoop(_, _, _, _)
SendLoop(attempt, queue_name, outcomes, waits) ==
    IF attempt >= max_retries
    THEN [result |-> PyNone, sends |-> attempt, waits |-> waits, delivered |-> FALSE]
    ELSE IF outcomes[attempt + 1]
         THEN [result |-> Dict([status |-> Str("success"), queue |-> queue_name,
                                attempts |-> Num(attempt + 1)]),
               sends |-> attempt + 1, waits |-> waits, delivered |-> TRUE]
         ELSE IF is_last_attempt(attempt)
              THEN [result |-> Dict([status |-> Str("error"),
                                     reason |-> Str("send failed"),
                                     attempts |-> Num(max_retries)]),
                    sends |-> attempt + 1, waits |-> waits, delivered |-> FALSE]
              ELSE SendLoop(attempt + 1, queue_name, outcomes,
                            Append(waits, delay(attempt)))

\* Faulty variant of queue_message: the connection string is not tested, so
\* without one every attempt fails inside the loop.
queue_message_unconfigured(queueInput, conn, outcomes) ==
    LET queue_name == Get(queueInput, "queue", PyNone)
    IN  IF ~Truthy(queue_name)
        THEN [result |-> Dict([status |-> Str("error"),
                               reason |-> Str("No queue name provided")]),
              sends |-> 0, waits |-> <<>>, delivered |-> FALSE]
        ELSE SendLoop(0, queue_name,
                      [i \in DOMAIN outcomes |-> conn /\ outcomes[i]], <<>>)

\* conn: SERVICE_BUS_CONNECTION_STRING is set
queue_message(queueInput, conn, outcomes) ==
    LET queue_name == Get(queueInput, "queue", PyNone)
    IN  IF ~Truthy(queue_name)
        THEN [result |-> Dict([status |-> Str("error"),
                               reason |-> Str("No queue name provided")]),
              sends |-> 0, waits |-> <<>>, delivered |-> FALSE]
        ELSE IF ~conn
             THEN [result |-> Dict([status |-> Str("error"),
                                    reason |-> Str("Service Bus not configured")]),
                   sends |-> 0, waits |-> <<>>, delivered |-> FALSE]
             ELSE SendLoop(0, queue_name, outcomes, <<>>)

(***************************************************************************)
(* Webhook ingress (webhooks/webhooks.py).  config stands for              *)
(* WEBHOOK_CONFIG: the set of registered sources (empty as shipped, filled *)
(* in by a deployment); every source has a queue and a handler.            *)
(***************************************************************************)
\* str.lower on the source names used
lower(source) == IF source = "GitHub" THEN "github" ELSE source

\* publish_to_service_bus(queue_name, message, ensure_queue=False)
publish_to_service_bus(conn, sendOk) == conn /\ sendOk

\* parsed: the body is absent or parses (req.get_json() raising gives {} as
\* well); handled is what handler(body) does: [kind |-> "raise", reason] or
\* [kind |-> "return", v].  A code of 500 is the answer of the Functions
\* host to an exception that leaves the function.
webhook_handler(config, route_source, parsed, handled, conn, sendOk) ==
    LET source == lower(route_source)
    IN  IF source \notin config
        THEN [code |-> 200, status |-> "ignored", queued |-> FALSE]
        ELSE IF handled.kind = "raise"
        THEN [code |-> 200, status |-> "error", queued |-> FALSE]
        ELSE LET result == handled.v
             IN  IF ~IsDict(result)
                 THEN [code |-> 500, status |-> "AttributeError", queued |-> FALSE]
                 ELSE IF ~Truthy(Get(result, "success", PyNone))
                 THEN [code |-> 200, status |-> "error", queued |-> FALSE]
                 ELSE IF ~Truthy(Get(result, "message", PyNone))
                 THEN [code |-> 200, status |-> "ok", queued |-> FALSE]
                 ELSE LET success == publish_to_service_bus(conn, sendOk)
                      IN  [code |-> 200,
                           status |-> IF success THEN "processed" ELSE "error",
                           queued |-> success]

(***************************************************************************)
(* main_orchestrator (orchestrators/orchestrator_main.py).  The generator  *)
(* is replayed from the start on every episode; results holds the outputs  *)
(* of the activities already completed, in the order they were called.  A  *)
(* yield whose result is recorded returns it, the first one that is not    *)
(* ends the episode with the activity call to schedule.                    *)
(***************************************************************************)
Call(name, arg) == [kind |-> "call", name |-> name, arg |-> arg]
Return(value) == [kind |-> "return", value |-> value]
Raise(reason) == [kind |-> "raise", reason |-> reason]

\* Faulty variant of TriageRecorded: the recorded triage output is lost to
\* the replay once a second result is in the history.
TriageRecorded_lost(results) == Len(results) = 1

\* yield context.call_activity("run_agent_workflow", ...) returns the
\* recorded output once the activity has completed (lines 30-36)
TriageRecorded(results) == Len(results) >= 1

\* Faulty variant of DispatchRecorded: the dispatch is called outside the
\* history, so every replay sends again.
DispatchRecorded_never(results) == FALSE

\* Faulty variant of DispatchRecorded: the replay looks for the dispatch
\* output one position too far in the history.
DispatchRecorded_late(results) == Len(results) >= 3

\* yield context.call_activity("queue_message", ...) likewise (lines 49-52)
DispatchRecorded(results) == Len(results) >= 2

\* Faulty variant of TriageFailed: the error test is missing.
TriageFailed_never(triage_result) == FALSE

\* if triage_result.get("status") == "error" (line 38)
TriageFailed(triage_result) == Get(triage_result, "status", PyNone) = Str("error")

\* Variant of TriageErrorReturn: the orchestrator raises on a triage error.
TriageErrorReturn_raise(triage_result) == Raise("triage failed")

\* return {"status": "error", "reason": ...} (line 40)
TriageErrorReturn(triage_result) ==
    Return(Dict([status |-> Str("error"),
                 reason |-> Get(triage_result, "reason", PyNone)]))

\* Faulty variant of ShouldRoute: the comparison with "none" is inverted.
ShouldRoute_inverted(target_queue) == Truthy(target_queue) /\ target_queue = Str("none")

\* if target_queue and target_queue != "none" (line 48)
ShouldRoute(target_queue) == Truthy(target_queue) /\ target_queue # Str("none")

\* Variant of AfterDispatch: a dispatch error fails the orchestration.
AfterDispatch_checked(results, completed) ==
    IF Get(results[2], "status", PyNone) = Str("error")
    THEN Raise("dispatch failed")
    ELSE completed

\* Faulty variant of AfterDispatch: after the dispatch the orchestrator waits
\* for an event that nothing raises.
AfterDispatch_waits(results, completed) == Call("wait_for_external_event", PyNone)

\* the output of queue_message is not looked at (lines 49-53)
AfterDispatch(results, completed) == completed

\* Faulty variant of triage_agent_type: an agent_type named in the input
\* selects the agent.
triage_agent_type_fromInput(input_data) ==
    Get(input_data, "agent_type", Str("triage"))

\* "agent_type": "triage" (line 33)
triage_agent_type(input_data) == Str("triage")

\* Faulty variant of DispatchInput: the whole routing decision is forwarded
\* as the payload.
DispatchInput_wrapped(target_queue, payload) ==
    Dict([queue |-> target_queue, payload |-> NextAction(target_queue, payload)])

\* {"queue": target_queue, "payload": payload} (lines 49-52)
DispatchInput(target_queue, payload) ==
    Dict([queue |-> target_queue, payload |-> payload])

main_orchestrator(input_data, results) ==
    LET event_type == Get(input_data, "event_type", Str("unknown"))
    IN  IF ~TriageRecorded(results)
        THEN Call("run_agent_workflow",
                  Dict([agent_type |-> triage_agent_type(input_data),
                        payload |-> input_data]))
        ELSE LET triage_result == results[1]
                 completed == Return(Dict([status |-> Str("completed"),
                                           event_type |-> event_type,
                                           triage_result |-> triage_result]))
             IN  IF TriageFailed(triage_result)
                 THEN TriageErrorReturn(triage_result)
                 ELSE LET next_action == Get(triage_result, "next_action", PyNone)
                      IN  IF Truthy(next_action)
                          THEN LET target_queue == Get(next_action, "target_queue", PyNone)
                                   payload == Get(next_action, "payload", EmptyDict)
                               IN  IF ShouldRoute(target_queue)
                                   THEN IF ~DispatchRecorded(results)
                                        THEN Call("queue_message",
                                                  DispatchInput(target_queue, payload))
                                        ELSE AfterDispatch(results, completed)
                                   ELSE completed
                          ELSE completed

(***************************************************************************)
(* State.                                                                  *)
(***************************************************************************)
VARIABLES
    queues,      \* queue name -> message bodies (JSON texts) that can be delivered
    cons,        \* worker -> the queue consumer invocation it is running
    inst,        \* instance id -> task hub record of the orchestration
    conn,        \* SERVICE_BUS_CONNECTION_STRING is configured
    deliveries,  \* number of queue deliveries made so far
    stats,       \* instance id -> history counters of its runs (raced: some
                 \* start_new acted on a status that was out of date)
    http,        \* response the status endpoint is returning, if any
    call         \* the activity function applied on its own, with its inputs
                 \* and what it returned

vars == <<queues, cons, inst, conn, deliveries, stats, http, call>>

QueueNames == {"agent-orchestrator", "agent-tasks", "agent-results"}

\* every instance id a consumer can derive from a JSON mapping of the table
Keys ==
    LET bodies == {doc[2] : doc \in {d \in JsonDocs : IsDict(d[2])}}
    IN  {orchestrator_instance_id(body) : body \in bodies}
            \cup {task_instance_id(body) : body \in bodies}

InFlight == {"Pending", "Running"}
Terminal == {"Completed", "Failed"}

NoCall == [kind |-> "none"]

\* no status request is being answered
NoResponse == [code |-> 0]

\* no activity function has been applied on its own yet (each is applied
\* once, to one choice of inputs)
NoApplication == [fn |-> "none"]

AbsentInstance ==
    [state |-> "absent", input |-> PyNone, output |-> PyNone,
     results |-> <<>>, pending |-> NoCall, wake |-> FALSE]

IdleConsumer(result) ==
    [pc |-> "idle", fn |-> "", instance_id |-> "", body |-> PyNone,
     observed |-> "", result |-> result]

NoStats ==
    [live |-> 0, gateway |-> 0, dispatch |-> 0, inflightTriage |-> 0,
     totalTriage |-> 0, starts |-> 0, raced |-> FALSE, firstTriage |-> PyNone,
     sentTo |-> PyNone, sentPayload |-> PyNone, dispatchResult |-> PyNone,
     backend |-> [kind |-> "none"]]

\* what the gateway (prompt loading, get_backend, backend.execute) can produce
Usage == Dict([prompt_tokens |-> Num(1), completion_tokens |-> Num(1),
               total_tokens |-> Num(2)])

Success(first) ==
    [AgentResponse("success", <<first>>, PyNone, PyNone)
        EXCEPT !.usage = Usage, !.model_name = Str("gpt-4o"), !.inference_rounds = 1]

GatewayOutcomes ==
    { [kind |-> "none"],
      [kind |-> "resp",
       r |-> [AgentResponse("error", <<>>, Str("gateway failed"), PyNone)
                 EXCEPT !.model_name = Str("gpt-4o")]],
      [kind |-> "resp", r |-> Success(Str(TxtRouteTasks))],
      [kind |-> "resp", r |-> Success(Dict([raw |-> Str(TxtRouteSelf)]))],
      [kind |-> "resp", r |-> Success(Str(TxtRouteNone))],
      [kind |-> "resp", r |-> Success(Str(TxtMalformed))],
      [kind |-> "resp", r |-> Success(Dict([raw |-> Str(TxtMalformed)]))] }

\* track_token_usage stores the record, returns success False, or raises
TelemetryOutcomes == {"ok", "failed", "raise"}

\* per-attempt outcomes of sender.send_messages: first send goes through,
\* third send goes through, no send goes through
SendOutcomes == {<<TRUE, TRUE, TRUE>>, <<FALSE, FALSE, TRUE>>, <<FALSE, FALSE, FALSE>>}

Init ==
    /\ queues = [q \in QueueNames |->
                    CASE q = "agent-orchestrator" -> {TxtOrder42}
                      [] OTHER -> {}]
    /\ cons = [w \in Workers |-> IdleConsumer("none")]
    /\ inst = [k \in Keys |-> AbsentInstance]
    /\ conn \in BOOLEAN
    /\ deliveries = 0
    /\ stats = [k \in Keys |-> NoStats]
    /\ http = NoResponse
    /\ call = NoApplication

(***************************************************************************)
(* Durable client (task hub) operations used by the handlers.              *)
(***************************************************************************)
\* client.get_status: None for an instance that was never created
get_status(k) ==
    IF k \notin Keys \/ inst[k].state = "absent"
    THEN [found |-> FALSE, runtime_status |-> "", output |-> PyNone]
    ELSE [found |-> TRUE, runtime_status |-> inst[k].state, output |-> inst[k].output]

\* client.start_new: the record of instance_id is created, or silently
\* replaced, by a new pending run with the given input and an empty history
start_new(k, client_input) ==
    [state |-> "Pending", input |-> client_input, output |-> PyNone,
     results |-> <<>>, pending |-> NoCall, wake |-> TRUE]

(***************************************************************************)
(* Queue consumers (agents.py).  Each handler awaits get_status and then   *)
(* start_new; other workers run between the two awaits.                    *)
(***************************************************************************)
\* Faulty variant of AlreadyRunning: Pending is left out of the list.
AlreadyRunning_RunningOnly(status) ==
    status.found /\ status.runtime_status = "Running"

\* Faulty variant of AlreadyRunning: any existing record blocks the start.
AlreadyRunning_anyExisting(status) == status.found

\* the test of agents.py:67-70 and agents.py:108-111
AlreadyRunning(status) ==
    status.found /\ status.runtime_status \in {"Running", "Pending"}

\* Delivery of one message up to the return of get_status.  A body that is
\* not JSON, or not a mapping, raises out of the handler.  Workers are
\* interchangeable, so the delivery goes to the first idle one.
ConsumerCheck(w, q, fn, text) ==
    /\ cons[w].pc = "idle"
    /\ \A v \in Workers : cons[v].pc = "idle" => w <= v
    /\ deliveries < MaxDeliveries
    /\ text \in queues[q]
    /\ deliveries' = deliveries + 1
    /\ LET parsed == json_loads(text)
       IN  IF ~parsed.ok \/ ~IsDict(parsed.v)
           THEN cons' = [cons EXCEPT ![w] = IdleConsumer("raised")]
           ELSE LET body == parsed.v
                    instance_id == IF fn = "orchestrator_queue_consumer"
                                   THEN orchestrator_instance_id(body)
                                   ELSE task_instance_id(body)
                IN  cons' = [cons EXCEPT ![w] =
                                [pc |-> "checked", fn |-> fn,
                                 instance_id |-> instance_id, body |-> body,
                                 observed |-> get_status(instance_id),
                                 result |-> "none"]]
    /\ http' = NoResponse
    /\ UNCHANGED call
    /\ UNCHANGED <<queues, inst, conn, stats>>

\* The rest of the handler: return on a running instance, else start_new.
ConsumerStart(w, fn) ==
    /\ cons[w].pc = "checked"
    /\ cons[w].fn = fn
    /\ LET k == cons[w].instance_id
       IN  IF AlreadyRunning(cons[w].observed)
           THEN /\ cons' = [cons EXCEPT ![w] = IdleConsumer("skipped")]
                /\ UNCHANGED <<inst, stats>>
           ELSE /\ cons' = [cons EXCEPT ![w] = IdleConsumer("started")]
                /\ inst' = [inst EXCEPT ![k] = start_new(k, cons[w].body)]
                /\ stats' = [stats EXCEPT ![k] =
                     [NoStats EXCEPT
                        !.live = IF inst[k].state \in InFlight
                                 THEN stats[k].live + 1 ELSE 1,
                        !.inflightTriage = IF inst[k].state \in InFlight
                                           THEN stats[k].inflightTriage ELSE 0,
                        !.totalTriage = stats[k].totalTriage,
                        !.raced = stats[k].raced \/ cons[w].observed # get_status(k),
                        !.starts = stats[k].starts + 1]]
    /\ http' = NoResponse
    /\ UNCHANGED call
    /\ UNCHANGED <<queues, conn, deliveries>>

orchestrator_queue_consumer_check(w) ==
    \E text \in queues["agent-orchestrator"] :
        ConsumerCheck(w, "agent-orchestrator", "orchestrator_queue_consumer", text)

orchestrator_queue_consumer_start(w) ==
    ConsumerStart(w, "orchestrator_queue_consumer")

task_queue_consumer_check(w) ==
    \E text \in queues["agent-tasks"] :
        ConsumerCheck(w, "agent-tasks", "task_queue_consumer", text)

task_queue_consumer_start(w) ==
    ConsumerStart(w, "task_queue_consumer")

(***************************************************************************)
(* Orchestration episodes and activities.                                  *)
(***************************************************************************)
\* One episode of main_orchestrator, on whichever worker picks the instance
\* up: replay over the recorded results, then either schedule the next
\* activity or finish the instance.  Nothing survives between episodes but
\* the record.
OrchestratorEpisode(k) ==
    /\ inst[k].state \in InFlight
    /\ inst[k].wake
    /\ LET decision == main_orchestrator(inst[k].input, inst[k].results)
       IN  CASE decision.kind = "call" ->
                  /\ inst' = [inst EXCEPT ![k].state = "Running",
                                          ![k].pending = decision,
                                          ![k].wake = FALSE]
                  /\ UNCHANGED stats
             [] decision.kind = "return" ->
                  /\ inst' = [inst EXCEPT ![k].state = "Completed",
                                          ![k].output = decision.value,
                                          ![k].wake = FALSE]
                  /\ stats' = [stats EXCEPT ![k].live = 0]
             [] OTHER ->  \* an exception out of the orchestrator function
                  /\ inst' = [inst EXCEPT ![k].state = "Failed",
                                          ![k].output = Str(decision.reason),
                                          ![k].wake = FALSE]
                  /\ stats' = [stats EXCEPT ![k].live = 0]
    /\ http' = NoResponse
    /\ UNCHANGED call
    /\ UNCHANGED <<queues, cons, conn, deliveries>>

\* The scheduled run_agent_workflow activity runs and its output is recorded.
ActivityRunAgentWorkflow(k) ==
    /\ inst[k].state = "Running"
    /\ inst[k].pending.kind = "call"
    /\ inst[k].pending.name = "run_agent_workflow"
    /\ \E gw \in GatewayOutcomes, tel \in TelemetryOutcomes :
         LET out == run_agent_workflow(inst[k].pending.arg, gw, tel)
         IN  /\ inst' = [inst EXCEPT ![k].results = Append(@, out.result),
                                      ![k].pending = NoCall,
                                      ![k].wake = TRUE]
             /\ stats' = [stats EXCEPT
                            ![k].gateway = @ + 1,
                            ![k].inflightTriage = @ + 1,
                            ![k].totalTriage = @ + 1,
                            ![k].firstTriage =
                                IF stats[k].gateway = 0 THEN out.result ELSE @,
                            ![k].backend = gw]
    /\ http' = NoResponse
    /\ UNCHANGED call
    /\ UNCHANGED <<queues, cons, conn, deliveries>>

\* The scheduled queue_message activity runs; a delivered payload becomes a
\* message of the target queue.
ActivityQueueMessage(k) ==
    /\ inst[k].state = "Running"
    /\ inst[k].pending.kind = "call"
    /\ inst[k].pending.name = "queue_message"
    /\ \E outcomes \in SendOutcomes :
         LET arg == inst[k].pending.arg
             out == queue_message(arg, conn, outcomes)
             q == PyFormat(Get(arg, "queue", PyNone))
             text == json_dumps(Get(arg, "payload", EmptyDict))
         IN  /\ inst' = [inst EXCEPT ![k].results = Append(@, out.result),
                                      ![k].pending = NoCall,
                                      ![k].wake = TRUE]
             /\ queues' = IF out.delivered /\ q \in QueueNames /\ text.ok
                          THEN [queues EXCEPT ![q] = @ \cup {text.s}]
                          ELSE queues
             /\ stats' = [stats EXCEPT
                            ![k].dispatch = @ + 1,
                            ![k].sentTo = Get(arg, "queue", PyNone),
                            ![k].sentPayload = Get(arg, "payload", PyNone),
                            ![k].dispatchResult = out.result]
    /\ http' = NoResponse
    /\ UNCHANGED call
    /\ UNCHANGED <<cons, conn, deliveries>>

\* Faulty variant of get_orchestration_status: a finished instance is
\* started again by the query.
get_orchestration_status_restarting(k) ==
    /\ LET status == get_status(k)
       IN  http' = IF ~status.found
                   THEN [code |-> 404, request |-> k, error |-> "Instance not found"]
                   ELSE [code |-> 200, request |-> k, instance_id |-> k,
                         runtime_status |-> status.runtime_status,
                         output |-> status.output]
    /\ inst' = IF inst[k].state \in Terminal
               THEN [inst EXCEPT ![k] = start_new(k, inst[k].input)]
               ELSE inst
    /\ UNCHANGED <<queues, cons, conn, deliveries, stats, call>>

(***************************************************************************)
(* Status endpoint (agents.py:164-182).                                    *)
(***************************************************************************)
\* What client.get_status hands back for an id that has no instance is
\* settled by the durable client, not by this repository: None, or a status
\* object all of whose fields (runtime_status too) are None, which is truthy.
\* The consumers treat the two alike (neither is Running or Pending); the
\* status endpoint does not: `not status` is false for the object, and
\* status.runtime_status.name then raises AttributeError, which the host
\* answers with 500.  request is the instanceId of the route.  Ids that have
\* no instance are alike to get_status, so one of them stands for all.
AbsentStatusShapes == {"None", "status without runtime_status"}

get_orchestration_status(k) ==
    /\ inst[k].state = "absent" => k = CHOOSE j \in Keys : inst[j].state = "absent"
    /\ \E absentAs \in AbsentStatusShapes :
         LET status == get_status(k)
         IN  http' = IF ~status.found
                     THEN IF absentAs = "None"
                          THEN [code |-> 404, request |-> k,
                                error |-> "Instance not found"]
                          ELSE [code |-> 500, request |-> k,
                                error |-> "AttributeError"]
                     ELSE [code |-> 200, request |-> k, instance_id |-> k,
                           runtime_status |-> status.runtime_status,
                           output |-> status.output]
    /\ UNCHANGED <<queues, cons, inst, conn, deliveries, stats, call>>

(***************************************************************************)
(* Status route of the tools API (tools/tools.py:49-63).                   *)
(***************************************************************************)
\* Faulty variant of tools_api_handler_status: the record of a finished
\* instance is purged once it has been reported.
tools_api_handler_status_purging(k) ==
    /\ inst[k].state = "absent" => k = CHOOSE j \in Keys : inst[j].state = "absent"
    /\ LET status == get_status(k)
       IN  http' = IF ~status.found
                   THEN [code |-> 404, request |-> k, route |-> "tools/status",
                         error |-> "Instance not found: " \o k]
                   ELSE [code |-> 200, request |-> k, route |-> "tools/status",
                         instance_id |-> k,
                         runtime_status |-> status.runtime_status,
                         output |-> status.output]
    /\ inst' = IF inst[k].state \in Terminal
               THEN [inst EXCEPT ![k] = AbsentInstance]
               ELSE inst
    /\ UNCHANGED <<queues, cons, conn, deliveries, stats, call>>

\* GET tools/status/<instance_id>: 404 when get_status gives None; a status
\* object without runtime_status is reported with runtime_status null
tools_api_handler_status(k) ==
    /\ inst[k].state = "absent" => k = CHOOSE j \in Keys : inst[j].state = "absent"
    /\ \E absentAs \in AbsentStatusShapes :
         LET status == get_status(k)
         IN  http' = IF ~status.found
                     THEN IF absentAs = "None"
                          THEN [code |-> 404, request |-> k, route |-> "tools/status",
                                error |-> "Instance not found: " \o k]
                          ELSE [code |-> 200, request |-> k, route |-> "tools/status",
                                instance_id |-> k, runtime_status |-> "null",
                                output |-> PyNone]
                     ELSE [code |-> 200, request |-> k, route |-> "tools/status",
                           instance_id |-> k,
                           runtime_status |-> status.runtime_status,
                           output |-> status.output]
    /\ UNCHANGED <<queues, cons, inst, conn, deliveries, stats, call>>

Next ==
    \/ \E w \in Workers : orchestrator_queue_consumer_check(w)
    \/ \E w \in Workers : orchestrator_queue_consumer_start(w)
    \/ \E w \in Workers : task_queue_consumer_check(w)
    \/ \E w \in Workers : task_queue_consumer_start(w)
    \/ \E k \in Keys : OrchestratorEpisode(k)
    \/ \E k \in Keys : ActivityRunAgentWorkflow(k)
    \/ \E k \in Keys : ActivityQueueMessage(k)
    \/ \E k \in Keys : get_orchestration_status(k)

Spec == Init /\ [][Next]_vars

\* The task hub keeps scheduling what is ready: an instance with new history
\* gets its next episode, a scheduled activity is run, and each activity
\* returns (the gateway call returns, the send loop is bounded).
FairSpec ==
    /\ Spec
    /\ \A k \in Keys : WF_vars(OrchestratorEpisode(k))
    /\ \A k \in Keys : WF_vars(ActivityRunAgentWorkflow(k))
    /\ \A k \in Keys : WF_vars(ActivityQueueMessage(k))

TypeOK ==
    /\ \A k \in Keys : inst[k].state \in {"absent"} \cup InFlight \cup Terminal
    /\ deliveries \in 0..MaxDeliveries
    /\ conn \in BOOLEAN

(***************************************************************************)
(* The activity functions applied on their own, to inputs the orchestrator *)
(* does not produce as well (missing queue name, every outcome of the      *)
(* three sends).                                                           *)
(***************************************************************************)
QueueInputs ==
    {Dict([queue |-> q, payload |-> p]) :
        q \in {Str("agent-tasks"), Str("agent-results"), Str(""), PyNone},
        p \in {ValPayloadX, EmptyDict}}
      \cup {Dict([queue |-> q]) : q \in {Str("agent-tasks"), Str("")}}
      \cup {Dict([payload |-> ValPayloadX]), EmptyDict}

\* outcome of sender.send_messages attempt by attempt, one attempt further
\* than the loop goes
AttemptOutcomes == [1..(max_retries + 1) -> BOOLEAN]

queue_message_call ==
    /\ call = NoApplication
    /\ \E queueInput \in QueueInputs, outcomes \in AttemptOutcomes :
         call' = [fn |-> "queue_message", input |-> queueInput,
                  outcomes |-> outcomes,
                  out |-> queue_message(queueInput, conn, outcomes)]
    /\ UNCHANGED <<queues, cons, inst, conn, deliveries, stats, http>>

\* What a backend can put first in responses: a text (JSON or not), a
\* decoded value of any type, or either of them under the key raw, with or
\* without a next_action of its own beside it.
JsonTexts == {doc[1] : doc \in JsonDocs} \cup {TxtMalformed, ""}

InnerValues == {Str(text) : text \in JsonTexts} \cup {doc[2] : doc \in JsonDocs}

FirstResponses ==
    InnerValues
      \cup {Dict([raw |-> v]) : v \in InnerValues}
      \cup {Dict([raw |-> Str(TxtNoRoute),
                  next_action |-> NextAction(Str("agent-tasks"), ValPayloadX)])}

ResponseLists ==
    {<<>>} \cup {<<first>> : first \in FirstResponses}
           \cup {<<first, Str(TxtRouteTasks)>> :
                    first \in {Str(TxtNoRoute), Str(TxtRouteResults), Str(TxtMalformed)}}

\* responses of a backend; next_action is a field the backend may fill too
BackendResponses ==
    {[Success(Str("")) EXCEPT !.responses = responses, !.next_action = next_action] :
        responses \in ResponseLists,
        next_action \in {PyNone, NextAction(Str("agent-results"), ValPayloadSummary)}}
      \cup {[AgentResponse("error", <<>>, Str("gateway failed"), PyNone)
                EXCEPT !.model_name = Str("gpt-4o")]}

WorkflowInputs ==
    {Dict([agent_type |-> Str("triage"), payload |-> ValOrder42]),
     Dict([payload |-> ValOrder42])}

CallGatewayOutcomes ==
    {[kind |-> "raise", stage |-> stage, reason |-> "Connection error."] :
        stage \in {"_load_system_prompt", "get_backend", "execute", "asdict"}}
      \cup {[kind |-> "none"]}
      \cup {[kind |-> "resp", r |-> r] : r \in BackendResponses}

\* Faulty variant of failure_reason: the exception text is dropped.
failure_reason_dropped(e) == PyNone

\* reason=str(e) (util_agents.py:79)
failure_reason(e) == Str(e)

\* what client.chat.completions.create does: raises (with or without a
\* message), answers without choices, or answers with one choice whose
\* content is a text or None, with or without usage figures
CompletionOutcomes ==
    {[kind |-> "raise", reason |-> reason] : reason \in {"Connection error.", ""}}
      \cup {[kind |-> "no choices"]}
      \cup {[kind |-> "completion", content |-> content, usage |-> usage] :
              content \in {Str(TxtRouteTasks), Str(TxtRouteNone), Str(TxtMalformed),
                           PyNone},
              usage \in BOOLEAN}

\* AzureOpenAIBackend.execute (util_agents.py:41-82); the deployment is the
\* default "gpt-4o"
AzureOpenAIBackend_execute(completion) ==
    CASE completion.kind = "raise" ->
           [AgentResponse("error", <<>>, failure_reason(completion.reason), PyNone)
               EXCEPT !.model_name = Str("gpt-4o")]
      [] completion.kind = "no choices" ->   \* response.choices[0] raises IndexError
           [AgentResponse("error", <<>>, failure_reason("list index out of range"),
                          PyNone)
               EXCEPT !.model_name = Str("gpt-4o")]
      [] OTHER ->
           [AgentResponse("success",
                          <<IF Truthy(completion.content)
                            THEN completion.content ELSE Str("")>>,
                          PyNone, PyNone)
               EXCEPT !.usage = IF completion.usage THEN Usage ELSE PyNone,
                      !.model_name = Str("gpt-4o"),
                      !.inference_rounds = 1]

\* run_agent_workflow with the Azure OpenAI backend behind get_backend: the
\* prompt loading or the construction of the backend raises, or execute runs
azure_openai_workflow_call ==
    /\ call = NoApplication
    /\ \E workflowInput \in WorkflowInputs, tel \in TelemetryOutcomes,
          before \in {"ok", "_load_system_prompt", "get_backend"},
          completion \in CompletionOutcomes :
         LET gw == IF before = "ok"
                   THEN [kind |-> "resp", r |-> AzureOpenAIBackend_execute(completion)]
                   ELSE [kind |-> "raise", stage |-> before,
                         reason |-> "Connection error."]
         IN  call' = [fn |-> "run_agent_workflow on azure_openai",
                      input |-> workflowInput, before |-> before,
                      completion |-> completion, tel |-> tel,
                      out |-> run_agent_workflow(workflowInput, gw, tel)]
    /\ UNCHANGED <<queues, cons, inst, conn, deliveries, stats, http>>

determine_next_action_call ==
    /\ call = NoApplication
    /\ \E response \in BackendResponses :
         call' = [fn |-> "_determine_next_action", response |-> response,
                  out |-> _determine_next_action(Str("triage"), response)]
    /\ UNCHANGED <<queues, cons, inst, conn, deliveries, stats, http>>

run_agent_workflow_call ==
    /\ call = NoApplication
    /\ \E workflowInput \in WorkflowInputs, gw \in CallGatewayOutcomes,
          tel \in TelemetryOutcomes :
         call' = [fn |-> "run_agent_workflow", input |-> workflowInput,
                  gw |-> gw, tel |-> tel,
                  out |-> run_agent_workflow(workflowInput, gw, tel)]
    /\ UNCHANGED <<queues, cons, inst, conn, deliveries, stats, http>>

\* two executions whose backend responses have the same first element
run_agent_workflow_twice ==
    /\ call = NoApplication
    /\ \E r1 \in BackendResponses, r2 \in BackendResponses,
          in1 \in WorkflowInputs, in2 \in WorkflowInputs :
         /\ \/ r1.responses = <<>> /\ r2.responses = <<>>
            \/ /\ r1.responses # <<>>
               /\ r2.responses # <<>>
               /\ r1.responses[1] = r2.responses[1]
         /\ call' = [fn |-> "run_agent_workflow twice",
                     first |-> [input |-> in1, r |-> r1],
                     second |-> [input |-> in2, r |-> r2],
                     out1 |-> run_agent_workflow(in1, [kind |-> "resp", r |-> r1], "ok"),
                     out2 |-> run_agent_workflow(in2, [kind |-> "resp", r |-> r2], "ok")]
    /\ UNCHANGED <<queues, cons, inst, conn, deliveries, stats, http>>

\* one execution under each outcome of the recording
run_agent_workflow_per_telemetry ==
    /\ call = NoApplication
    /\ \E workflowInput \in WorkflowInputs, gw \in CallGatewayOutcomes :
         call' = [fn |-> "run_agent_workflow per telemetry",
                  input |-> workflowInput, gw |-> gw,
                  outs |-> [tel \in TelemetryOutcomes |->
                               run_agent_workflow(workflowInput, gw, tel)]]
    /\ UNCHANGED <<queues, cons, inst, conn, deliveries, stats, http>>

UsageArgs ==
    [model_name : {Str("gpt-4o"), Str("")},
     agent_type : {Str("triage"), PyNone},
     input_tokens : {Num(1), Num(-1), PyNone},
     output_tokens : {Num(1)}]

SqlOutcomes ==
    {"import_raises", "unconfigured", "session_raises", "ok", "commit_raises",
     "rollback_raises", "close_raises"}

CosmosOutcomes == {"import_raises", "unconfigured", "ok", "upsert_raises"}

track_token_usage_call ==
    /\ call = NoApplication
    /\ \E usageArgs \in UsageArgs, sql \in SqlOutcomes, cosmos \in CosmosOutcomes :
         call' = [fn |-> "track_token_usage", args |-> usageArgs, sql |-> sql,
                  cosmos |-> cosmos,
                  out |-> track_token_usage(usageArgs, sql, cosmos)]
    /\ UNCHANGED <<queues, cons, inst, conn, deliveries, stats, http>>

WebhookConfigs == {{}, {"github"}}

HandlerOutcomes ==
    {[kind |-> "raise", reason |-> "handler failed"]}
      \cup {[kind |-> "return", v |-> v] :
               v \in {Dict([success |-> Bool(TRUE), message |-> ValOrder42]),
                      Dict([success |-> Bool(TRUE)]),
                      Dict([success |-> Bool(FALSE), error |-> Str("bad signature")]),
                      Dict([success |-> Bool(FALSE)]),
                      EmptyDict, PyNone, List(<<>>), Str("ok")}}

webhook_handler_call ==
    /\ call = NoApplication
    /\ \E config \in WebhookConfigs, route_source \in {"github", "GitHub", "stripe"},
          parsed \in BOOLEAN, handled \in HandlerOutcomes, sendOk \in BOOLEAN :
         call' = [fn |-> "webhook_handler", config |-> config,
                  source |-> route_source, parsed |-> parsed, handled |-> handled,
                  sendOk |-> sendOk,
                  out |-> webhook_handler(config, route_source, parsed, handled,
                                          conn, sendOk)]
    /\ UNCHANGED <<queues, cons, inst, conn, deliveries, stats, http>>

\* message bodies for the derivation of the instance id: the two identity
\* fields, each absent or a text (with and without the separator), and a
\* field that is not part of the identity
OptionalField(key, text) == IF text = "absent" THEN <<>> ELSE key :> Str(text)

TypeTexts == {"absent", "order", "a", "a-b"}
IdTexts == {"absent", "42", "c", "b-c"}
SourceTexts == {"absent", "retry"}

OrchestratorBodies ==
    {Dict(OptionalField("event_type", type) @@ OptionalField("event_id", id)
            @@ OptionalField("source", source)) :
        type \in TypeTexts, id \in IdTexts, source \in SourceTexts}

TaskBodies ==
    {Dict(OptionalField("agent_type", type) @@ OptionalField("task_id", id)
            @@ OptionalField("source", source)) :
        type \in TypeTexts, id \in IdTexts, source \in SourceTexts}

\* the id derived for two message bodies by the same consumer
instance_id_twice ==
    /\ call = NoApplication
    /\ \/ \E body1 \in OrchestratorBodies, body2 \in OrchestratorBodies :
            call' = [fn |-> "instance_id twice",
                     consumer |-> "orchestrator_queue_consumer",
                     body1 |-> body1, body2 |-> body2,
                     key1 |-> orchestrator_instance_id(body1),
                     key2 |-> orchestrator_instance_id(body2)]
       \/ \E body1 \in TaskBodies, body2 \in TaskBodies :
            call' = [fn |-> "instance_id twice",
                     consumer |-> "task_queue_consumer",
                     body1 |-> body1, body2 |-> body2,
                     key1 |-> task_instance_id(body1),
                     key2 |-> task_instance_id(body2)]
    /\ UNCHANGED <<queues, cons, inst, conn, deliveries, stats, http>>

\* a consumer starts main_orchestrator for a message body and the first
\* episode of the run is replayed on its empty history
first_episode ==
    /\ call = NoApplication
    /\ \/ \E body \in OrchestratorBodies :
            LET record == start_new(orchestrator_instance_id(body), body)
            IN  call' = [fn |-> "first episode",
                         consumer |-> "orchestrator_queue_consumer", body |-> body,
                         decision |-> main_orchestrator(record.input, record.results)]
       \/ \E body \in TaskBodies :
            LET record == start_new(task_instance_id(body), body)
            IN  call' = [fn |-> "first episode",
                         consumer |-> "task_queue_consumer", body |-> body,
                         decision |-> main_orchestrator(record.input, record.results)]
    /\ UNCHANGED <<queues, cons, inst, conn, deliveries, stats, http>>

\* two messages handled one after the other by the same consumer on an
\* empty task hub: body1 is started, then body2 is delivered while the run
\* of body1 is still pending
consumer_twice ==
    /\ call = NoApplication
    /\ \E fn \in {"orchestrator_queue_consumer", "task_queue_consumer"} :
         \E body1, body2 \in IF fn = "orchestrator_queue_consumer"
                              THEN OrchestratorBodies ELSE TaskBodies :
            LET instance_id(body) == IF fn = "orchestrator_queue_consumer"
                                     THEN orchestrator_instance_id(body)
                                     ELSE task_instance_id(body)
                first == start_new(instance_id(body1), body1)
                status == IF instance_id(body2) = instance_id(body1)
                          THEN [found |-> TRUE, runtime_status |-> first.state,
                                output |-> first.output]
                          ELSE [found |-> FALSE, runtime_status |-> "",
                                output |-> PyNone]
            IN  call' = [fn |-> "consumer twice", consumer |-> fn,
                         body1 |-> body1, body2 |-> body2,
                         key1 |-> instance_id(body1), key2 |-> instance_id(body2),
                         second |-> IF AlreadyRunning(status)
                                    THEN "skipped" ELSE "started"]
    /\ UNCHANGED <<queues, cons, inst, conn, deliveries, stats, http>>

NextCalls ==
    \/ queue_message_call
    \/ azure_openai_workflow_call
    \/ consumer_twice
    \/ first_episode
    \/ instance_id_twice
    \/ webhook_handler_call
    \/ track_token_usage_call
    \/ run_agent_workflow_per_telemetry
    \/ determine_next_action_call
    \/ run_agent_workflow_call
    \/ run_agent_workflow_twice

SpecCalls == Init /\ [][NextCalls]_vars

(***************************************************************************)
(* Properties.                                                             *)
(***************************************************************************)
HasTriage(k) == Len(inst[k].results) >= 1
TriageOf(k) == inst[k].results[1]
IsErrorResult(tr) == tr.d.status = Str("error")
ObservedInFlight(w) ==
    cons[w].observed.found /\ cons[w].observed.runtime_status \in InFlight

\* what the function body returns when run straight through with triage
\* output tr
UninterruptedResult(input_data, tr) ==
    IF tr.d.status = Str("error")
    THEN Dict([status |-> Str("error"), reason |-> tr.d.reason])
    ELSE Dict([status |-> Str("completed"),
               event_type |-> IF "event_type" \in DOMAIN input_data.d
                              THEN input_data.d.event_type ELSE Str("unknown"),
               triage_result |-> tr])

\* the triage output asks for a dispatch
WantsDispatch(tr) ==
    /\ tr.d.status # Str("error")
    /\ tr.d.next_action.t = "dict"
    /\ "target_queue" \in DOMAIN tr.d.next_action.d
    /\ tr.d.next_action.d.target_queue \notin {PyNone, Str(""), Str("none")}

\* C1: for every instance id, at most one run is pending/running at a time
\* (no start_new lands on a record that is still pending/running) and the
\* triage step is started at most once while the id stays in flight.
C1_AtMostOneInFlightRun ==
    \A k \in Keys : stats[k].live <= 1 /\ stats[k].inflightTriage <= 1

\* C2: a consumer whose status check observed Pending or Running finishes
\* without calling start_new: it returns normally (no exception), and the
\* instance records (state, input, history) are unchanged by its step.
C2_IdempotentStart ==
    [][\A w \in Workers :
         (cons[w].pc = "checked" /\ ObservedInFlight(w) /\ cons'[w] # cons[w])
            => /\ cons'[w].pc = "idle"
               /\ cons'[w].result = "skipped"
               /\ inst' = inst]_vars

C2_Witness ==
    \E w \in Workers, k \in Keys :
        cons[w].result = "skipped" /\ inst[k].state \in InFlight

\* C3 (as stated): whatever the times of the deliveries of one message,
\* also after the first run has finished, the triage step executes at most
\* once for its instance id.  Stated for the ids on which every start_new
\* acted on an up-to-date status, so that the start race of C1 plays no part.
C3_ConsumedExactlyOnce ==
    \A k \in Keys : ~stats[k].raced => stats[k].totalTriage <= 1

\* C3 (amended): the triage step executes at most once per run started for
\* the instance id; a delivery handled after the run has finished starts a
\* new run, which executes triage again.
C3_TriageOncePerStartedRun ==
    \A k \in Keys : stats[k].totalTriage <= stats[k].starts

C3_Witness ==
    \E k \in Keys :
        ~stats[k].raced /\ stats[k].starts = 2 /\ stats[k].totalTriage = 2

\* C4 (as stated): once a record is Completed or Failed no step moves it to
\* another state.
C4_TerminalAbsorbing ==
    [][\A k \in Keys :
         inst[k].state \in Terminal => inst'[k].state = inst[k].state]_vars

\* C4 (amended): a Completed or Failed record is changed only by a queue
\* consumer that calls start_new for its id, which makes it Pending again;
\* status queries, activities and orchestrator episodes leave it as it is.
C4_TerminalLeftOnlyByStart ==
    [][\A k \in Keys :
         (inst[k].state \in Terminal /\ inst'[k] # inst[k])
            => /\ inst'[k].state = "Pending"
               /\ \E w \in Workers :
                    /\ cons[w].pc = "checked"
                    /\ cons[w].instance_id = k
                    /\ cons'[w].result = "started"]_vars

C4_Witness ==
    \E k \in Keys :
        inst[k].state = "Pending" /\ stats[k].starts = 2 /\ ~stats[k].raced

\* C5: a consumer whose status check observed anything but Pending/Running
\* (absent, Completed, Failed) makes the record Pending with the message
\* body as input and an empty history, and a Pending record next becomes
\* Running with the triage activity scheduled on that input.
C5_StartCreatesPendingThenRunning ==
    [][/\ \A w \in Workers :
            (cons[w].pc = "checked" /\ ~ObservedInFlight(w) /\ cons'[w] # cons[w])
               => /\ inst'[cons[w].instance_id].state = "Pending"
                  /\ inst'[cons[w].instance_id].input = cons[w].body
                  /\ inst'[cons[w].instance_id].results = <<>>
       /\ \A k \in Keys :
            (inst[k].state = "Pending" /\ inst'[k].state # "Pending")
               => /\ inst'[k].state = "Running"
                  /\ inst'[k].input = inst[k].input
                  /\ inst'[k].pending.kind = "call"
                  /\ inst'[k].pending.name = "run_agent_workflow"
                  /\ inst'[k].pending.arg.d.payload = inst[k].input]_vars

C5_Witness ==
    \E k \in Keys :
        inst[k].state = "Running" /\ stats[k].starts = 2 /\ ~stats[k].raced

\* C6: a run is resumed from its record at every step boundary; across all
\* its episodes the triage activity and the dispatch activity each execute
\* at most once, the replay sees the triage output as first recorded, and
\* the run returns what the uninterrupted function body returns.
C6_ReplaySafe ==
    \A k \in Keys :
        /\ stats[k].gateway <= 1
        /\ stats[k].dispatch <= 1
        /\ HasTriage(k) => TriageOf(k) = stats[k].firstTriage
        /\ inst[k].state = "Completed"
              => inst[k].output = UninterruptedResult(inst[k].input, stats[k].firstTriage)

C6_Witness ==
    \E k \in Keys :
        /\ inst[k].state = "Completed"
        /\ stats[k].gateway = 1
        /\ stats[k].dispatch = 1
        /\ Len(inst[k].results) = 2

\* C7: when the triage output has status error, queue_message is neither
\* scheduled nor executed in that run and the run returns
\* {status: error, reason} with the reason of the triage output.
C7_FailureShortCircuit ==
    \A k \in Keys :
        (HasTriage(k) /\ IsErrorResult(TriageOf(k)))
           => /\ stats[k].dispatch = 0
              /\ inst[k].pending = NoCall
              /\ inst[k].state \in Terminal
                    => inst[k].output = Dict([status |-> Str("error"),
                                              reason |-> TriageOf(k).d.reason])

C7_Witness ==
    \E k \in Keys :
        /\ HasTriage(k)
        /\ IsErrorResult(TriageOf(k))
        /\ inst[k].state \in Terminal
        /\ inst[k].output.d.reason = Str("gateway failed")

C9_DispatchIffRouted ==
    \A k \in Keys :
        /\ stats[k].dispatch <= 1
        /\ stats[k].dispatch = 1
              => /\ HasTriage(k)
                 /\ WantsDispatch(TriageOf(k))
                 /\ stats[k].sentTo = TriageOf(k).d.next_action.d.target_queue
                 /\ stats[k].sentTo \notin {PyNone, Str(""), Str("none")}
        /\ inst[k].state = "Completed"
              => (stats[k].dispatch = 1 <=> WantsDispatch(TriageOf(k)))

C9_Witness ==
    \E k \in Keys :
        /\ inst[k].state = "Completed"
        /\ stats[k].dispatch = 1
        /\ stats[k].sentTo = Str("agent-tasks")

\* C10: whatever queue_message returns (success, configuration error,
\* retries exhausted), a run whose triage output is not an error never fails
\* and ends Completed with {status: completed, event_type, triage_result}
\* carrying the triage output as recorded.
C10_DispatchFailureNonFatal ==
    \A k \in Keys :
        (HasTriage(k) /\ ~IsErrorResult(TriageOf(k)))
           => /\ inst[k].state # "Failed"
              /\ (stats[k].dispatch = 1 /\ ~inst[k].wake) => inst[k].state = "Completed"
              /\ inst[k].state = "Completed"
                    => /\ inst[k].output.d.status = Str("completed")
                       /\ inst[k].output.d.triage_result = stats[k].firstTriage
                       /\ inst[k].output.d.event_type
                             = (IF "event_type" \in DOMAIN inst[k].input.d
                                THEN inst[k].input.d.event_type ELSE Str("unknown"))

C10_Witness ==
    \E k \in Keys :
        /\ inst[k].state = "Completed"
        /\ stats[k].dispatch = 1
        /\ stats[k].dispatchResult.d.status = Str("error")
        /\ inst[k].output.d.status = Str("completed")

\* C11: within one run the steps are strictly ordered.  The triage activity
\* executes only on a running instance with an empty history and no dispatch
\* made; the dispatch activity executes only on a running instance whose
\* history holds exactly the triage output; the instance becomes terminal
\* only with no activity outstanding, the triage output recorded and every
\* dispatch made recorded; and while the instance stays terminal no activity
\* executes and its history does not change.
C11_StepsInOrder ==
    [][\A k \in Keys :
         /\ stats'[k].gateway > stats[k].gateway
               => /\ inst[k].state = "Running"
                  /\ inst[k].results = <<>>
                  /\ stats[k].dispatch = 0
         /\ stats'[k].dispatch > stats[k].dispatch
               => /\ inst[k].state = "Running"
                  /\ Len(inst[k].results) = 1
                  /\ stats[k].gateway = 1
                  /\ stats[k].dispatch = 0
         /\ (inst[k].state \in InFlight /\ inst'[k].state \in Terminal)
               => /\ inst[k].pending = NoCall
                  /\ HasTriage(k)
                  /\ stats[k].gateway = 1
                  /\ Len(inst[k].results) = 1 + stats[k].dispatch
         /\ (inst[k].state \in Terminal /\ inst'[k].state \in Terminal)
               => /\ stats'[k].gateway = stats[k].gateway
                  /\ stats'[k].dispatch = stats[k].dispatch
                  /\ inst'[k].results = inst[k].results
                  /\ inst'[k].pending = NoCall]_vars

C11_Witness ==
    \E k \in Keys :
        /\ inst[k].state \in Terminal
        /\ stats[k].gateway = 1
        /\ stats[k].dispatch = 1
        /\ Len(inst[k].results) = 2
        /\ inst[k].pending = NoCall

\* the dispatcher is configured and the activity input names a queue
DispatcherReady ==
    /\ call.fn = "queue_message"
    /\ conn
    /\ "queue" \in DOMAIN call.input.d
    /\ call.input.d.queue.t = "str"
    /\ call.input.d.queue.s # ""

SomeSendSucceeds == \E n \in 1..3 : call.outcomes[n]

FirstSuccess ==
    CHOOSE n \in 1..3 : call.outcomes[n] /\ \A m \in 1..(n - 1) : ~call.outcomes[m]

\* C12: with the dispatcher configured and a queue named, when one of the
\* first three sends goes through the activity returns status success with
\* attempts = the index (1..3) of the first send that went through, and it
\* has made exactly that many sends (none after the success).
C12_SuccessAtFirstGoodSend ==
    (DispatcherReady /\ SomeSendSucceeds)
       => /\ call.out.result.t = "dict"
          /\ call.out.result.d.status = Str("success")
          /\ call.out.result.d.attempts = Num(FirstSuccess)
          /\ call.out.sends = FirstSuccess
          /\ call.out.delivered

C12_Witness ==
    /\ DispatcherReady
    /\ ~call.outcomes[1] /\ ~call.outcomes[2] /\ call.outcomes[3]
    /\ call.out.result.d.attempts = Num(3)
    /\ call.out.sends = 3

\* C13: the activity always returns a mapping (it never raises) and never
\* makes more than three sends; when the first three sends all fail it has
\* made exactly three and returns status error with a reason and attempts 3.
C13_ErrorAfterThreeFailures ==
    call.fn = "queue_message"
       => /\ call.out.result.t = "dict"
          /\ call.out.sends <= 3
          /\ (DispatcherReady /\ ~SomeSendSucceeds)
                => /\ call.out.sends = 3
                   /\ call.out.result.d.status = Str("error")
                   /\ "reason" \in DOMAIN call.out.result.d
                   /\ call.out.result.d.attempts = Num(3)
                   /\ ~call.out.delivered

C13_Witness ==
    /\ DispatcherReady
    /\ ~SomeSendSucceeds
    /\ call.outcomes[4]
    /\ call.out.sends = 3
    /\ call.out.result.d.status = Str("error")

\* C14: when the activity input has no queue name, or an empty one, or the
\* connection string is not configured, the activity returns status error
\* with a reason, without a single send and without a single wait.
C14_ConfigErrorSendsNothing ==
    (call.fn = "queue_message" /\ ~DispatcherReady)
       => /\ call.out.result.t = "dict"
          /\ call.out.result.d.status = Str("error")
          /\ "reason" \in DOMAIN call.out.result.d
          /\ call.out.sends = 0
          /\ call.out.waits = <<>>
          /\ ~call.out.delivered

C14_Witness ==
    /\ call.fn = "queue_message"
    /\ ~conn
    /\ "queue" \in DOMAIN call.input.d
    /\ call.input.d.queue = Str("agent-tasks")
    /\ call.outcomes[1]
    /\ call.out.sends = 0
    /\ call.out.result.d.reason = Str("Service Bus not configured")

\* The value the routing decision is to be read from, said without the
\* extraction code: responses[0], or what it holds under raw, decoded when
\* it is a JSON text.  Undecodable stands for a text that is not JSON and
\* Nothing for an empty responses list.
Undecodable == [t |-> "undecodable"]
Nothing == [t |-> "nothing"]

Unwrapped(response) ==
    IF response.responses = <<>> THEN Nothing
    ELSE LET first == response.responses[1]
         IN  IF first.t = "dict" /\ "raw" \in DOMAIN first.d
             THEN first.d.raw ELSE first

RoutingSource(response) ==
    LET v == Unwrapped(response)
    IN  IF v.t = "str"
        THEN IF \E doc \in JsonDocs : doc[1] = v.s
             THEN (CHOOSE doc \in JsonDocs : doc[1] = v.s)[2]
             ELSE Undecodable
        ELSE v

\* the source is a mapping whose next_action is a mapping
HasRoutingMapping(response) ==
    LET v == RoutingSource(response)
    IN  /\ v.t = "dict"
        /\ "next_action" \in DOMAIN v.d
        /\ v.d.next_action.t = "dict"

RoutingMapping(response) == RoutingSource(response).d.next_action.d

ExtractionApplied == call.fn = "_determine_next_action"

\* C15: when responses[0] is a JSON text, a mapping, or a mapping holding
\* either under raw, and the value so obtained is a mapping whose next_action
\* is a mapping with a target_queue t that is a non-empty string other than
\* "none", the extraction returns NextAction(t, p), p being the payload of
\* next_action, or the empty mapping when it has no payload key.
C15_PositiveExtraction ==
    (/\ ExtractionApplied
     /\ HasRoutingMapping(call.response)
     /\ "target_queue" \in DOMAIN RoutingMapping(call.response)
     /\ RoutingMapping(call.response).target_queue.t = "str"
     /\ RoutingMapping(call.response).target_queue.s \notin {"", "none"})
       => call.out = [t |-> "dict",
                      d |-> [target_queue |-> RoutingMapping(call.response).target_queue,
                             payload |-> IF "payload" \in DOMAIN RoutingMapping(call.response)
                                         THEN RoutingMapping(call.response).payload
                                         ELSE [t |-> "dict", d |-> <<>>]]]

C15_Witness ==
    /\ ExtractionApplied
    /\ call.response.responses = <<Dict([raw |-> Str(TxtNoPayload)])>>
    /\ call.out.t = "dict"
    /\ call.out.d.target_queue = Str("agent-results")
    /\ call.out.d.payload = EmptyDict

\* C16: for each of the accepted shapes, a next_action whose target_queue is
\* "none", is the empty string or is absent yields no NextAction.
C16_NoneEmptyAbsentTarget ==
    (/\ ExtractionApplied
     /\ HasRoutingMapping(call.response)
     /\ \/ "target_queue" \notin DOMAIN RoutingMapping(call.response)
        \/ RoutingMapping(call.response).target_queue \in {Str("none"), Str("")})
       => call.out = PyNone

C16_Witness ==
    /\ ExtractionApplied
    /\ call.response.responses = <<Dict([raw |-> Str(TxtRouteNone)])>>
    /\ call.out = PyNone

\* C18: for an empty responses list, a first response that is a list, a
\* number or null, a raw value that is neither text nor mapping, a JSON text
\* that decodes to something other than a mapping, and a next_action that
\* is missing or not a mapping, the extraction returns None and raises
\* nothing.
C18_OtherShapesGiveNone ==
    (/\ ExtractionApplied
     /\ RoutingSource(call.response) # Undecodable
     /\ ~HasRoutingMapping(call.response))
       => call.out = PyNone

C18_Witness ==
    /\ ExtractionApplied
    /\ call.response.responses = <<Dict([raw |-> Str(TxtActionString)])>>
    /\ call.out = PyNone

\* the triage output on record was made from a backend response whose
\* first element, or its raw value, is a text that is not JSON
MalformedTriage(k) ==
    /\ HasTriage(k)
    /\ stats[k].backend.kind = "resp"
    /\ stats[k].backend.r.status = "success"
    /\ RoutingSource(stats[k].backend.r) = Undecodable

\* C17: when the first response of the backend, or its raw value, is a text
\* that is not JSON, the executor raises nothing and returns the backend's
\* status success with no next_action, and the run makes no dispatch, does
\* not fail and ends Completed with status completed.
C17_MalformedResponseCompletes ==
    \A k \in Keys :
        MalformedTriage(k)
           => /\ TriageOf(k).d.status = Str("success")
              /\ TriageOf(k).d.next_action = PyNone
              /\ stats[k].dispatch = 0
              /\ inst[k].pending = NoCall
              /\ Len(inst[k].results) = 1
              /\ inst[k].state # "Failed"
              /\ ~inst[k].wake => inst[k].state = "Completed"
              /\ inst[k].state = "Completed"
                    => inst[k].output.d.status = Str("completed")

C17_Witness ==
    \E k \in Keys :
        /\ MalformedTriage(k)
        /\ stats[k].backend.r.responses[1].t = "dict"
        /\ inst[k].state = "Completed"
        /\ inst[k].output.d.status = Str("completed")
        /\ stats[k].dispatch = 0

\* C19: the next_action the executor returns depends on responses[0] alone:
\* two executions whose backend responses agree on the first element (or are
\* both empty) return the same next_action, whatever else differs, the
\* next_action field the backend filled in included.
C19_NextActionFromFirstResponseOnly ==
    call.fn = "run_agent_workflow twice"
       => call.out1.result.d.next_action = call.out2.result.d.next_action

C19_Witness ==
    /\ call.fn = "run_agent_workflow twice"
    /\ call.first.r.next_action = PyNone
    /\ call.second.r.next_action # PyNone
    /\ call.first.r.responses # call.second.r.responses
    /\ call.out1.result.d.next_action = NextAction(Str("agent-results"), ValPayloadSummary)
    /\ call.out2.result.d.next_action = NextAction(Str("agent-results"), ValPayloadSummary)

\* C20: an exception raised inside the try (loading the prompt, obtaining
\* the backend, executing it, serialising the response) does not leave the
\* executor: it returns the mapping of an AgentResponse with status error,
\* reason = the text of the exception, agent_type = the agent_type of the
\* input (None when the input has none), no responses and no next_action.
C20_ExceptionBecomesErrorResponse ==
    (call.fn = "run_agent_workflow" /\ call.gw.kind = "raise")
       => /\ call.out.result.t = "dict"
          /\ call.out.result.d.status = Str("error")
          /\ call.out.result.d.reason = Str(call.gw.reason)
          /\ call.out.result.d.agent_type
                = (IF "agent_type" \in DOMAIN call.input.d
                   THEN call.input.d.agent_type ELSE PyNone)
          /\ call.out.result.d.next_action = PyNone
          /\ call.out.result.d.responses = List(<<>>)

C20_Witness ==
    /\ call.fn = "run_agent_workflow"
    /\ call.gw.kind = "raise"
    /\ call.gw.stage = "execute"
    /\ call.out.result.d.status = Str("error")
    /\ call.out.result.d.reason = Str("Connection error.")
    /\ call.out.result.d.agent_type = Str("triage")

\* the executor was applied and the backend returned nothing
NoResultApplied == call.fn = "run_agent_workflow" /\ call.gw.kind = "none"

RequestedType ==
    IF "agent_type" \in DOMAIN call.input.d THEN call.input.d.agent_type
    ELSE [t |-> "none"]

RequestedTypeText ==
    IF RequestedType.t = "str" THEN RequestedType.s ELSE "None"

\* C21 (as stated): when the backend returns no result the executor returns
\* status error with reason "no response from agent: <agent_type>", empty
\* responses and no next_action.
C21_NoResultReasonAsStated ==
    NoResultApplied
       => /\ call.out.result.d.status = Str("error")
          /\ call.out.result.d.reason
                = Str("no response from agent: " \o RequestedTypeText)
          /\ call.out.result.d.responses = List(<<>>)
          /\ call.out.result.d.next_action = PyNone

\* C21 (amended): when the backend returns no result the executor returns
\* status error with reason "No response from agent: <agent_type>" (capital
\* N; <agent_type> is the requested type as str() renders it, None when the
\* input has none), agent_type = the requested type, empty responses and no
\* next_action.
C21_NoResultReason ==
    NoResultApplied
       => /\ call.out.result.d.status = Str("error")
          /\ call.out.result.d.reason
                = Str("No response from agent: " \o RequestedTypeText)
          /\ call.out.result.d.agent_type = RequestedType
          /\ call.out.result.d.responses = List(<<>>)
          /\ call.out.result.d.next_action = PyNone

C21_Witness ==
    /\ NoResultApplied
    /\ RequestedType = Str("triage")
    /\ call.out.result.d.reason = Str("No response from agent: triage")

\* C22: whatever the recording of token usage does (stores the record,
\* reports a failure, raises), the executor returns the response it returns
\* when the recording succeeds: same status, responses and next_action.
C22_TelemetryBestEffort ==
    call.fn = "run_agent_workflow per telemetry"
       => \A tel \in {"ok", "failed", "raise"} :
             /\ call.outs[tel].result.d.status = call.outs["ok"].result.d.status
             /\ call.outs[tel].result.d.responses = call.outs["ok"].result.d.responses
             /\ call.outs[tel].result.d.next_action = call.outs["ok"].result.d.next_action
             /\ call.outs[tel].result = call.outs["ok"].result

C22_Witness ==
    /\ call.fn = "run_agent_workflow per telemetry"
    /\ call.gw.kind = "resp"
    /\ call.gw.r.usage # PyNone
    /\ call.outs["raise"].tracked = 1
    /\ call.outs["raise"].result.d.status = Str("success")
    /\ call.outs["raise"].result.d.next_action.t = "dict"

\* C23: every execution of run_agent_workflow makes a recording attempt (a
\* call of track_token_usage): on the success path, when the backend
\* returns status error, when it returns nothing and when execution raises.
C23_AlwaysAttemptsRecording ==
    call.fn = "run_agent_workflow" => call.out.tracked >= 1

\* C24: for every call of track_token_usage and every behaviour of the two
\* stores, at most one write to the primary store and at most one write to
\* the secondary store are attempted, and the call returns a mapping with a
\* boolean success flag (no exception leaves it).
C24_SingleFallbackWrite ==
    call.fn = "track_token_usage"
       => /\ call.out.sql_writes <= 1
          /\ call.out.cosmos_writes <= 1
          /\ call.out.result.t = "dict"
          /\ "success" \in DOMAIN call.out.result.d
          /\ call.out.result.d.success.t = "bool"

C24_Witness ==
    /\ call.fn = "track_token_usage"
    /\ call.sql = "commit_raises"
    /\ call.cosmos = "upsert_raises"
    /\ call.out.sql_writes = 1
    /\ call.out.cosmos_writes = 1
    /\ call.out.result.d.success = Bool(FALSE)

\* C25: the webhook ingress answers HTTP 200 on every path: unknown source,
\* unparseable body, handler exception, handler-reported failure, handler
\* result with no message, handler returning a non-mapping, publish failure.
C25_WebhookAlwaysAcknowledges ==
    call.fn = "webhook_handler" => call.out.code = 200

\* C26: a status query for key k reports not-found exactly when no run has
\* ever been started for k; a record once created is never deleted, and
\* every query after the first start answers with the instance id, the
\* runtime status and the output of the record.
C26_NotFoundIffNeverStarted ==
    /\ \A k \in Keys : stats[k].starts > 0 => inst[k].state # "absent"
    /\ http.code # 0
          => /\ http.code = 404 <=> stats[http.request].starts = 0
             /\ stats[http.request].starts > 0
                   => /\ http.code = 200
                      /\ http.instance_id = http.request
                      /\ http.runtime_status = inst[http.request].state
                      /\ http.output = inst[http.request].output

\* the run of k has completed on a triage output that routes to a real queue
RoutedAndCompleted(k) ==
    /\ inst[k].state = "Completed"
    /\ HasTriage(k)
    /\ WantsDispatch(TriageOf(k))
    /\ TriageOf(k).d.next_action.d.target_queue.t = "str"
    /\ TriageOf(k).d.next_action.d.target_queue.s \in QueueNames

\* what the claim says of such a run: one dispatch, to q, with payload p,
\* and the output {status: completed, event_type, triage_result}
EndToEndFacts(k) ==
    /\ stats[k].dispatch = 1
    /\ stats[k].sentTo = TriageOf(k).d.next_action.d.target_queue
    /\ stats[k].sentPayload = TriageOf(k).d.next_action.d.payload
    /\ inst[k].output = UninterruptedResult(inst[k].input, TriageOf(k))
    /\ inst[k].output.d.status = Str("completed")
    /\ TriageOf(k) = stats[k].firstTriage

\* C27 (as stated): a run whose triage output routes to a real queue q with
\* payload p dispatches exactly once, to q, with p, returns {status:
\* completed, event_type, triage_result}, and from then on the record stays
\* completed with that output, so every later status query reports it.
C27_EndToEndAsStated ==
    [][\A k \in Keys :
         RoutedAndCompleted(k)
            => /\ EndToEndFacts(k)
               /\ inst'[k].state = "Completed"
               /\ inst'[k].output = inst[k].output
               /\ (http'.code # 0 /\ http'.request = k)
                     => /\ http'.code = 200
                        /\ http'.runtime_status = "Completed"
                        /\ http'.output = inst[k].output]_vars

\* C27 (amended): such a run dispatches exactly once, to q, with p, and
\* returns {status: completed, event_type, triage_result}; a status query
\* reports the completed state with that output until a later delivery for
\* the key starts a new run, which puts the record back to pending.
C27_EndToEnd ==
    [][\A k \in Keys :
         RoutedAndCompleted(k)
            => /\ EndToEndFacts(k)
               /\ \/ /\ inst'[k].state = "Completed"
                     /\ inst'[k].output = inst[k].output
                  \/ /\ inst'[k].state = "Pending"
                     /\ stats'[k].starts = stats[k].starts + 1
               /\ (http'.code # 0 /\ http'.request = k)
                     => /\ http'.code = 200
                        /\ http'.runtime_status = "Completed"
                        /\ http'.output = inst[k].output]_vars

C27_Witness ==
    \E k \in Keys :
        /\ RoutedAndCompleted(k)
        /\ stats[k].sentTo = Str("agent-tasks")
        /\ stats[k].sentPayload = ValPayloadX
        /\ http.code = 200
        /\ http.request = k
        /\ http.runtime_status = "Completed"
        /\ http.output.d.triage_result = TriageOf(k)

\* the (type, id) pair of a message body, a field left out marked as such
IdentityPair(body) ==
    LET field(key) == IF key \in DOMAIN body.d THEN body.d[key] ELSE [t |-> "absent"]
    IN  IF call.consumer = "orchestrator_queue_consumer"
        THEN <<field("event_type"), field("event_id")>>
        ELSE <<field("agent_type"), field("task_id")>>

\* C28: two message bodies with the same (event_type, event_id) pair, or the
\* same (agent_type, task_id) pair, derive the same instance id, whatever
\* their other fields.
C28_KeyDeterministic ==
    (call.fn = "instance_id twice"
        /\ IdentityPair(call.body1) = IdentityPair(call.body2))
       => call.key1 = call.key2

C28_Witness ==
    /\ call.fn = "instance_id twice"
    /\ call.consumer = "orchestrator_queue_consumer"
    /\ call.body1 # call.body2
    /\ IdentityPair(call.body1) = <<Str("order"), Str("42")>>
    /\ IdentityPair(call.body2) = <<Str("order"), Str("42")>>
    /\ call.key1 = "orchestrate-order-42"
    /\ call.key2 = "orchestrate-order-42"

\* C29: two message bodies with distinct (event_type, event_id) pairs, or
\* distinct (agent_type, task_id) pairs, both fields present, derive
\* different instance ids, also when a component contains the separator.
C29_KeyCollisionFree ==
    (/\ call.fn = "instance_id twice"
     /\ \A i \in 1..2 : IdentityPair(call.body1)[i].t = "str"
     /\ \A i \in 1..2 : IdentityPair(call.body2)[i].t = "str"
     /\ IdentityPair(call.body1) # IdentityPair(call.body2))
       => call.key1 # call.key2

\* C30: under fair scheduling of episodes and activities, an instance that
\* is pending or running eventually is completed or failed, whatever the
\* triage output and whatever the outcomes of the sends.
C30_EventuallyTerminal ==
    \A k \in Keys : (inst[k].state \in InFlight) ~> (inst[k].state \in Terminal)

C30_Witness ==
    \E k \in Keys :
        /\ inst[k].state \in Terminal
        /\ stats[k].starts >= 1
        /\ stats[k].dispatch = 1
        /\ stats[k].dispatchResult.d.status = Str("error")
        /\ "attempts" \in DOMAIN stats[k].dispatchResult.d
        /\ stats[k].dispatchResult.d.attempts = Num(3)

\* C31: the first step of a run, whichever consumer started it, calls the
\* executor with agent_type "triage" and the whole message body as payload;
\* an agent_type named in a task message changes nothing.
C31_FirstStepIsTriage ==
    call.fn = "first episode"
       => /\ call.decision.kind = "call"
          /\ call.decision.name = "run_agent_workflow"
          /\ call.decision.arg.t = "dict"
          /\ DOMAIN call.decision.arg.d = {"agent_type", "payload"}
          /\ call.decision.arg.d.agent_type = [t |-> "str", s |-> "triage"]
          /\ call.decision.arg.d.payload = call.body

C31_Witness ==
    /\ call.fn = "first episode"
    /\ call.consumer = "task_queue_consumer"
    /\ "agent_type" \in DOMAIN call.body.d
    /\ call.body.d.agent_type = Str("order")
    /\ call.decision.arg.d.agent_type = Str("triage")

(***************************************************************************)
(* The chain of runs caused by one ingress event: the message of Init is   *)
(* consumed, its run triages and may dispatch, the follow-up message is    *)
(* consumed in turn.  The handlers are those of Spec, each taken in one    *)
(* step and every message delivered once; nothing is counted, so that a    *)
(* chain that never ends is a cycle of states.  Status requests on either  *)
(* route arrive at any time.                                               *)
(***************************************************************************)
\* a consumer handles one message: skip on a running instance, else start_new
ChainConsumer(q, fn) ==
    /\ \E text \in queues[q] :
         LET parsed == json_loads(text)
         IN  /\ queues' = [queues EXCEPT ![q] = @ \ {text}]
             /\ IF ~parsed.ok \/ ~IsDict(parsed.v)
                THEN UNCHANGED inst
                ELSE LET body == parsed.v
                         instance_id == IF fn = "orchestrator_queue_consumer"
                                        THEN orchestrator_instance_id(body)
                                        ELSE task_instance_id(body)
                     IN  IF AlreadyRunning(get_status(instance_id))
                         THEN UNCHANGED inst
                         ELSE inst' = [inst EXCEPT ![instance_id] =
                                          start_new(instance_id, body)]
    /\ UNCHANGED <<cons, conn, deliveries, stats, http, call>>

\* one episode of main_orchestrator on the recorded history
ChainEpisode(k) ==
    /\ inst[k].state \in InFlight
    /\ inst[k].wake
    /\ LET decision == main_orchestrator(inst[k].input, inst[k].results)
       IN  CASE decision.kind = "call" ->
                  inst' = [inst EXCEPT ![k].state = "Running",
                                       ![k].pending = decision,
                                       ![k].wake = FALSE]
             [] decision.kind = "return" ->
                  inst' = [inst EXCEPT ![k].state = "Completed",
                                       ![k].output = decision.value,
                                       ![k].wake = FALSE]
             [] OTHER ->
                  inst' = [inst EXCEPT ![k].state = "Failed",
                                       ![k].output = Str(decision.reason),
                                       ![k].wake = FALSE]
    /\ UNCHANGED <<queues, cons, conn, deliveries, stats, http, call>>

\* the scheduled run_agent_workflow activity
ChainRunAgentWorkflow(k) ==
    /\ inst[k].state = "Running"
    /\ inst[k].pending.kind = "call"
    /\ inst[k].pending.name = "run_agent_workflow"
    /\ \E gw \in GatewayOutcomes, tel \in TelemetryOutcomes :
         LET out == run_agent_workflow(inst[k].pending.arg, gw, tel)
         IN  inst' = [inst EXCEPT ![k].results = Append(@, out.result),
                                  ![k].pending = NoCall,
                                  ![k].wake = TRUE]
    /\ UNCHANGED <<queues, cons, conn, deliveries, stats, http, call>>

\* the scheduled queue_message activity
ChainQueueMessage(k) ==
    /\ inst[k].state = "Running"
    /\ inst[k].pending.kind = "call"
    /\ inst[k].pending.name = "queue_message"
    /\ \E outcomes \in SendOutcomes :
         LET arg == inst[k].pending.arg
             out == queue_message(arg, conn, outcomes)
             q == PyFormat(Get(arg, "queue", PyNone))
             text == json_dumps(Get(arg, "payload", EmptyDict))
         IN  /\ inst' = [inst EXCEPT ![k].results = Append(@, out.result),
                                      ![k].pending = NoCall,
                                      ![k].wake = TRUE]
             /\ queues' = IF out.delivered /\ q \in QueueNames /\ text.ok
                          THEN [queues EXCEPT ![q] = @ \cup {text.s}]
                          ELSE queues
    /\ UNCHANGED <<cons, conn, deliveries, stats, http, call>>

NextChain ==
    \/ ChainConsumer("agent-orchestrator", "orchestrator_queue_consumer")
    \/ ChainConsumer("agent-tasks", "task_queue_consumer")
    \/ \E k \in Keys : ChainEpisode(k)
    \/ \E k \in Keys : ChainRunAgentWorkflow(k)
    \/ \E k \in Keys : ChainQueueMessage(k)
    \/ \E k \in Keys : get_orchestration_status(k)
    \/ \E k \in Keys : tools_api_handler_status(k)

\* Every message is delivered to its consumer, and the task hub keeps
\* scheduling what is ready.
SpecChain ==
    /\ Init
    /\ [][NextChain]_vars
    /\ WF_vars(ChainConsumer("agent-orchestrator", "orchestrator_queue_consumer"))
    /\ WF_vars(ChainConsumer("agent-tasks", "task_queue_consumer"))
    /\ \A k \in Keys : WF_vars(ChainEpisode(k))
    /\ \A k \in Keys : WF_vars(ChainRunAgentWorkflow(k))
    /\ \A k \in Keys : WF_vars(ChainQueueMessage(k))

\* nothing is left to consume and no run is in flight
ChainEnded ==
    /\ queues["agent-orchestrator"] = {}
    /\ queues["agent-tasks"] = {}
    /\ \A k \in Keys : inst[k].state \notin InFlight

\* C32: the chain of runs caused by one ingress event is finite for every
\* sequence of triage results: sooner or later no follow-up message is
\* waiting and no run is in flight, for good.
C32_ChainIsFinite == <>[]ChainEnded

\* run k has sent its follow-up message and has only its return left
HasDispatched(k) ==
    /\ inst[k].state = "Running"
    /\ Len(inst[k].results) = 2
    /\ inst[k].results[2].d.status = Str("success")

\* the follow-up message of run k: the queue and the text of the dispatch
\* that main_orchestrator schedules on the triage result of k
FollowUpOf(k) ==
    LET decision == main_orchestrator(inst[k].input, <<inst[k].results[1]>>)
    IN  [queue |-> PyFormat(Get(decision.arg, "queue", PyNone)),
         text |-> json_dumps(Get(decision.arg, "payload", EmptyDict)).s]

\* the instance key the consumer of its queue derives for the follow-up of k
FollowUpKey(k) ==
    LET body == json_loads(FollowUpOf(k).text).v
    IN  IF FollowUpOf(k).queue = "agent-orchestrator"
        THEN orchestrator_instance_id(body)
        ELSE task_instance_id(body)

\* the follow-up of k is taken off its queue by this step
FollowUpConsumed(k) ==
    /\ FollowUpOf(k).queue \in {"agent-orchestrator", "agent-tasks"}
    /\ FollowUpOf(k).text \in queues[FollowUpOf(k).queue]
    /\ queues'[FollowUpOf(k).queue] = queues[FollowUpOf(k).queue] \ {FollowUpOf(k).text}

\* C33: a follow-up whose derived key equals the key of the run that
\* dispatched it is not lost to deduplication: when its consumer handles it
\* while the dispatching run is still Running, a run is started for it.
C33_FollowUpNotDeduplicated ==
    [][\A k \in Keys :
          (HasDispatched(k) /\ FollowUpKey(k) = k /\ FollowUpConsumed(k))
             => inst'[k] = start_new(k, json_loads(FollowUpOf(k).text).v)]_vars

\* the text an identity field contributes to the key as the specification
\* has it: the field's text, "unknown" for a field left out
FieldOrUnknown(body, key) ==
    IF key \in DOMAIN body.d THEN body.d[key].s ELSE "unknown"

\* C34: a triage message missing event_type or event_id gets "unknown" in
\* the place of the missing field, and so does a task message missing
\* task_id; two distinct triage messages of one event_type that both lack
\* event_id derive the same key, and the second is skipped while the run of
\* the first is pending.
C34_MissingFieldsUseUnknown ==
    call.fn = "consumer twice"
       => /\ call.consumer = "orchestrator_queue_consumer"
               => call.key1 = "orchestrate-" \o FieldOrUnknown(call.body1, "event_type")
                                 \o "-" \o FieldOrUnknown(call.body1, "event_id")
          /\ (call.consumer = "task_queue_consumer"
                /\ "agent_type" \in DOMAIN call.body1.d)
               => call.key1 = "task-" \o call.body1.d.agent_type.s
                                 \o "-" \o FieldOrUnknown(call.body1, "task_id")
          /\ (/\ call.consumer = "orchestrator_queue_consumer"
              /\ call.body1 # call.body2
              /\ "event_id" \notin DOMAIN call.body1.d
              /\ "event_id" \notin DOMAIN call.body2.d
              /\ IdentityPair(call.body1)[1] = IdentityPair(call.body2)[1])
               => /\ call.key1 = call.key2
                  /\ call.second = "skipped"

C34_Witness ==
    /\ call.fn = "consumer twice"
    /\ call.consumer = "orchestrator_queue_consumer"
    /\ call.body1 = Dict([event_type |-> Str("order")])
    /\ call.body2 = Dict([event_type |-> Str("order"), source |-> Str("retry")])
    /\ call.key1 = "orchestrate-order-unknown"
    /\ call.key2 = "orchestrate-order-unknown"
    /\ call.second = "skipped"

\* C35: queue_message sleeps only between a failed send and the next send:
\* one wait fewer than sends, 2 before the second send and 5 before the
\* third, strictly increasing, none after a success or after the last
\* failure, and the third configured delay (10) is never slept.
C35_BackoffSchedule ==
    call.fn = "queue_message"
       => LET waits == call.out.waits
              sends == call.out.sends
          IN  /\ Len(waits) = IF sends = 0 THEN 0 ELSE sends - 1
              /\ \A i \in 1..Len(waits) : ~call.outcomes[i] /\ i + 1 <= sends
              /\ Len(waits) >= 1 => waits[1] = 2
              /\ Len(waits) >= 2 => waits[2] = 5
              /\ \A i \in 1..Len(waits) : \A j \in 1..Len(waits) :
                    i < j => waits[i] < waits[j]
              /\ \A i \in 1..Len(waits) : waits[i] # 10

C35_Witness ==
    /\ call.fn = "queue_message"
    /\ call.out.sends = 3
    /\ call.out.waits = <<2, 5>>
    /\ ~call.outcomes[3]
    /\ call.out.result.d.status = Str("error")

\* C36: in every response run_agent_workflow returns with the Azure OpenAI
\* backend, reason is set (not None) exactly when status is error: a
\* completion gives success without reason; a failure before the backend,
\* inside execute or after it gives error with a reason.
C36_ReasonIffError ==
    call.fn = "run_agent_workflow on azure_openai"
       => /\ call.out.result.d.status \in {Str("success"), Str("error")}
          /\ (call.out.result.d.reason # PyNone)
                <=> (call.out.result.d.status = Str("error"))

C36_Witness ==
    /\ call.fn = "run_agent_workflow on azure_openai"
    /\ call.before = "ok"
    /\ call.completion.kind = "raise"
    /\ call.out.result.d.status = Str("error")
    /\ call.out.result.d.reason = Str("Connection error.")

(***************************************************************************)
(* get_backend (utility/util_agents.py:94-117) in one worker process.      *)
(* run_agent_workflow is a synchronous activity, so the host runs its      *)
(* invocations on the threads of a pool; a thread can be suspended between *)
(* any two statements of get_backend.  The module global and what each     *)
(* thread is doing are kept in call.                                       *)
(***************************************************************************)
\* os.environ.get("AI_BACKEND", "azure_openai"): unset, the two known
\* values, an unknown value
BackendSettings == {"unset", "azure_openai", "azure_ai_agents", "local"}

\* the class the if/elif/else of lines 106-112 constructs
backend_class(setting) ==
    LET backend_type == IF setting = "unset" THEN "azure_openai" ELSE setting
    IN  IF backend_type = "azure_openai" THEN "AzureOpenAIBackend"
        ELSE IF backend_type = "azure_ai_agents" THEN "AzureAIAgentsBackend"
        ELSE "AzureOpenAIBackend"

\* the process is loaded: _backend_instance = None (line 94)
ProcessStart ==
    /\ call = NoApplication
    /\ \E setting \in BackendSettings :
         call' = [fn |-> "get_backend", AI_BACKEND |-> setting,
                  _backend_instance |-> PyNone,
                  constructed |-> {}, returned |-> {},
                  pc |-> [t \in Workers |-> "idle"]]
    /\ UNCHANGED <<queues, cons, inst, conn, deliveries, stats, http>>

\* lines 100-102: the cached instance is returned, or the thread goes on to
\* select a backend
BackendCheck(t) ==
    /\ call.fn = "get_backend"
    /\ call.pc[t] = "idle"
    /\ call' = IF call._backend_instance # PyNone
               THEN [call EXCEPT !.returned = @ \cup {call._backend_instance}]
               ELSE [call EXCEPT !.pc[t] = "selecting"]
    /\ UNCHANGED <<queues, cons, inst, conn, deliveries, stats, http>>

\* lines 104-112: a backend object is constructed and stored in the global
BackendConstruct(t) ==
    /\ call.fn = "get_backend"
    /\ call.pc[t] = "selecting"
    /\ LET instance == [class |-> backend_class(call.AI_BACKEND), by |-> t]
       IN  call' = [call EXCEPT !._backend_instance = instance,
                                !.constructed = @ \cup {instance},
                                !.pc[t] = "stored"]
    /\ UNCHANGED <<queues, cons, inst, conn, deliveries, stats, http>>

\* lines 114-115: return _backend_instance reads the global again
BackendReturn(t) ==
    /\ call.fn = "get_backend"
    /\ call.pc[t] = "stored"
    /\ call' = [call EXCEPT !.returned = @ \cup {call._backend_instance},
                            !.pc[t] = "idle"]
    /\ UNCHANGED <<queues, cons, inst, conn, deliveries, stats, http>>

NextBackend ==
    \/ ProcessStart
    \/ \E t \in Workers : BackendCheck(t)
    \/ \E t \in Workers : BackendConstruct(t)
    \/ \E t \in Workers : BackendReturn(t)

SpecBackend == Init /\ [][NextBackend]_vars

\* C37: in one process at most one backend object is ever constructed and
\* every call of get_backend returns that one object, also when the first
\* calls run concurrently; an unknown AI_BACKEND selects AzureOpenAIBackend.
C37_BackendConstructedOnce ==
    call.fn = "get_backend"
       => /\ Cardinality(call.constructed) <= 1
          /\ Cardinality(call.returned) <= 1
          /\ call.AI_BACKEND = "local"
                => \A b \in call.constructed : b.class = "AzureOpenAIBackend"

\* the part of an instance record a status request reports
Reported(record) ==
    [state |-> record.state, input |-> record.input, output |-> record.output]

\* C38: a status request, on the agents route or on the tools route, for a
\* present or an absent id, leaves every instance record (state, input,
\* output) as it was; a record changes only in a step of a queue consumer
\* (a message leaves its queue) or of the orchestrator (an episode runs).
C38_StatusQueriesReadOnly ==
    [][/\ http' # http => inst' = inst
       /\ (\E k \in Keys : Reported(inst'[k]) # Reported(inst[k]))
             => \/ \E q \in QueueNames : queues'[q] # queues[q]
                \/ \E k \in Keys : inst[k].wake /\ ~inst'[k].wake]_vars

C38_Witness ==
    /\ http.code = 200
    /\ "route" \in DOMAIN http
    /\ http.route = "tools/status"
    /\ inst[http.request].state = "Completed"
    /\ http.runtime_status = "Completed"
    /\ http.output = inst[http.request].output
    /\ \E k \in Keys : inst[k].state = "absent"

====
